---------------------------- MODULE Spec2Model ----------------------------
(***************************************************************************)
(* V-Stack: the streaming client's playback buffer and chunk scheduler,    *)
(* and the coordinator's ChunkPaxos placement consensus over its metadata  *)
(* database.  Each subsystem has its own specification over its own        *)
(* variables; the other subsystems' variables stay as initialised.         *)
(***************************************************************************)
EXTENDS Integers, Sequences, FiniteSets, TLC

\* Python's Optional: None is the empty tuple, a value x is <<x>>
None == <<>>
Some(x) == <<x>>

Min(a, b) == IF a <= b THEN a ELSE b

(***************************************************************************)
(* Bounds of the model.                                                    *)
(***************************************************************************)
\* sequence numbers offered to add_chunk are 0..MaxSeq
MaxSeq == 4
\* rebuffering_events is counted up to this value
MaxRebuffer == 2
\* config.MAX_MEMORY_BYTES, scaled to payloads of one or two bytes
max_memory_bytes == 3
\* chunks in one download list
MaxChunksPerCall == 2
\* config.MAX_CONCURRENT_DOWNLOADS (default 4), scaled
max_concurrent_downloads == 1
\* config.MAX_RETRIES (default 3), scaled
MAX_RETRIES == 2
\* number of ballots generated in the ballot specification
MaxIssued == 4
\* clock readings (milliseconds) are 0..MaxClock
MaxClock == 2
\* calls of propose_chunk_placement started on the coordinator
MaxProposals == 2
\* node_load counters are 0..MaxLoad when select_best_node is called alone
MaxLoad == 3
\* config.HISTORY_SIZE (10 by default): length of the latency and bandwidth
\* windows
history_size == 2
\* length of the success window (deque(maxlen=20) in the code)
success_maxlen == 3
\* passes of wall-clock time (probe_interval_sec each) the health monitor
\* is followed for
MaxHealthTicks == 5
\* chunks given to the erasure coder have at most MaxChunkLen bytes
MaxChunkLen == 4

(***************************************************************************)
(* Program constants.                                                      *)
(***************************************************************************)
CHUNK_DURATION_SEC == 10
START_PLAYBACK_SEC == 10
LOW_WATER_MARK_SEC == 15
TARGET_BUFFER_SEC == 30
\* width of the counter field of a ballot: (timestamp << 16) | (counter & 0xFFFF)
CounterBits == 16
max_retries == 3
popularity_threshold == 1000
NODE_HEALTH_TIMEOUT == 10
default_bandwidth == 50
recent_samples == 5
replicas_per_chunk == 3
upload_max_retries == 3
quorum_uploads == 2
heartbeat_timeout == 60
probe_interval == 30
erasure_data_shards == 3
erasure_parity_shards == 2

VARIABLES
    \* ---- client/buffer_manager.py: BufferManager
    buffer,                 \* deque of BufferedChunk, head first
    current_memory_usage,
    current_position,
    playback_started,
    playback_ready_event,
    total_chunks_buffered,
    total_chunks_played,
    rebuffering_events,
    temp_files,             \* spilled chunks on disk: path -> bytes
    delivered,              \* sequence numbers returned by take, in order
    last_take,              \* what the last take returned (a chunk or None)
    buffer_updated_event,
    last_add                \* what the last add_chunk returned

bufVars == <<buffer, current_memory_usage, current_position, playback_started,
             playback_ready_event, total_chunks_buffered, total_chunks_played,
             rebuffering_events, temp_files, delivered, last_take,
             buffer_updated_event, last_add>>

(***************************************************************************)
(* Playback buffer (client/buffer_manager.py).                             *)
(***************************************************************************)
Payloads == {<<7>>, <<8, 9>>}
SeqNums == 0..MaxSeq

BufferInit ==
    /\ buffer = <<>>
    /\ current_memory_usage = 0
    /\ current_position = 0
    /\ playback_started = FALSE
    /\ playback_ready_event = FALSE
    /\ total_chunks_buffered = 0
    /\ total_chunks_played = 0
    /\ rebuffering_events = 0
    /\ temp_files = << >>
    /\ delivered = <<>>
    /\ last_take = None
    /\ buffer_updated_event = FALSE
    /\ last_add = None

get_buffer_level_seconds(buf) == Len(buf) * CHUNK_DURATION_SEC

needs_more_chunks(buf) == get_buffer_level_seconds(buf) < LOW_WATER_MARK_SEC

\* playback that waits for more than the start level
can_start_playback_late(buf) == get_buffer_level_seconds(buf) > START_PLAYBACK_SEC

can_start_playback(buf) == get_buffer_level_seconds(buf) >= START_PLAYBACK_SEC

\* an insertion that always appends
InsertIndexAtEnd(buf, sequence_num) == Len(buf) + 1

\* the index before which a chunk with this sequence number is inserted:
\* the first entry with a larger sequence number, or the end
InsertIndex(buf, sequence_num) ==
    IF \E i \in 1..Len(buf) : sequence_num < buf[i].sequence_num
    THEN CHOOSE i \in 1..Len(buf) :
            /\ sequence_num < buf[i].sequence_num
            /\ \A j \in 1..(i - 1) : ~(sequence_num < buf[j].sequence_num)
    ELSE Len(buf) + 1

InsertAt(buf, i, chunk) ==
    SubSeq(buf, 1, i - 1) \o <<chunk>> \o SubSeq(buf, i, Len(buf))

\* an add that never finds its sequence number in the buffer
IsDuplicateNever(buf, sequence_num) == FALSE

\* a chunk with this sequence number is already in the buffer
IsDuplicate(buf, sequence_num) ==
    \E i \in 1..Len(buf) : buf[i].sequence_num = sequence_num

\* a buffer that keeps every chunk in memory
MustSpillNever(usage, chunk_size) == FALSE

\* the chunk does not fit into the memory budget and goes to disk
MustSpill(usage, chunk_size) == usage + chunk_size > max_memory_bytes

\* add_chunk(chunk_id, sequence_num, chunk_data); spill_ok is whether writing
\* the temporary file succeeds when the chunk has to be spilled
add_chunk(sequence_num, chunk_data, spill_ok) ==
    LET stale == sequence_num < current_position
        dup == IsDuplicate(buffer, sequence_num)
        chunk_size == Len(chunk_data)
        spill == MustSpill(current_memory_usage, chunk_size)
        chunk == [sequence_num |-> sequence_num,
                  data |-> IF spill THEN None ELSE Some(chunk_data),
                  size_bytes |-> chunk_size,
                  temp_file_path |-> IF spill THEN Some(sequence_num) ELSE None]
        newbuf == InsertAt(buffer, InsertIndex(buffer, sequence_num), chunk)
    IN  IF stale \/ dup \/ (spill /\ ~spill_ok)
        THEN /\ last_add' = Some(FALSE)
             /\ UNCHANGED <<buffer, current_memory_usage, current_position,
                            playback_started, playback_ready_event,
                            total_chunks_buffered, total_chunks_played,
                            rebuffering_events, temp_files, delivered, last_take,
                            buffer_updated_event>>
        ELSE /\ buffer' = newbuf
             /\ current_memory_usage' =
                    IF spill THEN current_memory_usage
                    ELSE current_memory_usage + chunk_size
             /\ temp_files' =
                    IF spill
                    THEN [p \in DOMAIN temp_files \cup {sequence_num} |->
                            IF p = sequence_num THEN chunk_data ELSE temp_files[p]]
                    ELSE temp_files
             /\ total_chunks_buffered' = total_chunks_buffered + 1
             /\ buffer_updated_event' = TRUE
             /\ last_add' = Some(TRUE)
             /\ playback_ready_event' =
                    IF can_start_playback(newbuf) THEN TRUE ELSE playback_ready_event
             /\ UNCHANGED <<current_position, playback_started, total_chunks_played,
                            rebuffering_events, delivered, last_take>>

RemoveFile(files, path) == [p \in DOMAIN files \ {path} |-> files[p]]

\* a take that hands out the head whatever its sequence number
HeadIsNextAnyHead(buf, position) == TRUE

\* the head is handed out only when it is the chunk at current_position
HeadIsNext(buf, position) == buf[1].sequence_num = position

get_next_chunk_for_playback ==
    IF buffer = <<>>
    THEN /\ rebuffering_events < MaxRebuffer \/ ~playback_started
         /\ rebuffering_events' =
                IF playback_started THEN rebuffering_events + 1 ELSE rebuffering_events
         /\ playback_ready_event' =
                IF playback_started THEN FALSE ELSE playback_ready_event
         /\ last_take' = None
         /\ UNCHANGED <<buffer, current_memory_usage, current_position, playback_started,
                        total_chunks_buffered, total_chunks_played, temp_files, delivered,
                        buffer_updated_event, last_add>>
    ELSE IF HeadIsNext(buffer, current_position)
    THEN LET next_chunk == Head(buffer)
         IN  /\ buffer' = Tail(buffer)
             /\ current_memory_usage' =
                    IF next_chunk.data # None /\ next_chunk.data # Some(<<>>)
                    THEN current_memory_usage - next_chunk.size_bytes
                    ELSE current_memory_usage
             /\ temp_files' =
                    IF next_chunk.temp_file_path # None
                       /\ next_chunk.temp_file_path[1] \in DOMAIN temp_files
                    THEN RemoveFile(temp_files, next_chunk.temp_file_path[1])
                    ELSE temp_files
             /\ current_position' = current_position + 1
             /\ total_chunks_played' = total_chunks_played + 1
             /\ playback_started' = TRUE
             /\ delivered' = Append(delivered, next_chunk.sequence_num)
             /\ last_take' = Some(next_chunk)
             /\ buffer_updated_event' = TRUE
             /\ UNCHANGED <<playback_ready_event, total_chunks_buffered, rebuffering_events,
                            last_add>>
    ELSE /\ last_take' = None
         /\ UNCHANGED <<buffer, current_memory_usage, current_position, playback_started,
                        playback_ready_event, total_chunks_buffered, total_chunks_played,
                        rebuffering_events, temp_files, delivered,
                        buffer_updated_event, last_add>>

\* wait_for_buffer once the event is set: it is consumed (a timeout changes
\* nothing)
wait_for_buffer ==
    /\ buffer_updated_event
    /\ buffer_updated_event' = FALSE
    /\ UNCHANGED <<buffer, current_memory_usage, current_position, playback_started,
                   playback_ready_event, total_chunks_buffered, total_chunks_played,
                   rebuffering_events, temp_files, delivered, last_take, last_add>>

reset ==
    /\ buffer' = <<>>
    /\ temp_files' = [p \in DOMAIN temp_files \
                            {buffer[i].sequence_num : i \in {j \in 1..Len(buffer) :
                                                            buffer[j].temp_file_path # None}}
                        |-> temp_files[p]]
    /\ current_memory_usage' = 0
    /\ current_position' = 0
    /\ playback_started' = FALSE
    /\ total_chunks_buffered' = 0
    /\ total_chunks_played' = 0
    /\ rebuffering_events' = 0
    /\ playback_ready_event' = FALSE
    /\ delivered' = <<>>
    /\ last_take' = None
    /\ buffer_updated_event' = FALSE
    /\ last_add' = None

(***************************************************************************)
(* Chunk scheduler (client/scheduler.py).                                  *)
(***************************************************************************)
SchedNodes == {"n1", "n2"}

\* the chunk_info dicts a caller can put in a download list
ChunkInfos ==
    { [chunk_id |-> "a", replicas |-> <<"n1", "n2">>],
      [chunk_id |-> "b", replicas |-> <<"n2">>],
      [chunk_id |-> "c", replicas |-> <<>>] }

\* the download lists of one download_chunks_parallel call
\* (a chunk id appears once in a list)
DownloadLists ==
    { l \in UNION { [1..n -> ChunkInfos] : n \in 1..MaxChunksPerCall } :
        \A i, j \in 1..Len(l) : i # j => l[i].chunk_id # l[j].chunk_id }

\* chunk_info dicts whose replica list names a node more than once
RepeatedReplicaInfos ==
    { [chunk_id |-> "d", replicas |-> <<"n2", "n2">>],
      [chunk_id |-> "e", replicas |-> <<"n1", "n2", "n1">>] }

\* one-chunk download lists, replica lists with repeated nodes included
FailoverLists == { <<info>> : info \in ChunkInfos \cup RepeatedReplicaInfos }

\* two download_chunks_parallel calls run concurrently on one scheduler
Calls == {1, 2}

\* the worker tasks one call can create: at most max_concurrent_downloads
Workers == Calls \X (1..max_concurrent_downloads)

VARIABLES
    download_semaphore,     \* permits left in asyncio.Semaphore
    node_load,              \* node_url -> active download count
    active_downloads,       \* chunk_id -> node_url
    chunk_sources,          \* chunk_id -> node_url
    total_downloads,
    failed_downloads,
    failover_count,
    healthy,                \* nodes network_monitor.is_node_healthy accepts
    node_score,             \* network_monitor.get_node_score per node
    call_state,             \* per download_chunks_parallel call: "new", "running"
    queue,                  \* per call: the asyncio.Queue of chunk_info
    results,                \* per call: chunk_id -> "bytes" or "nil"
    requested,              \* per call: its chunks_to_download argument
    worker                  \* per worker task: where it is in worker() / download_chunk()

schedVars == <<download_semaphore, node_load, active_downloads, chunk_sources,
               total_downloads, failed_downloads, failover_count, healthy,
               node_score, call_state, queue, results, requested, worker>>

\* what the network monitor reports, fixed during a run
HealthChoices == {SchedNodes, {"n2"}}
ScoreChoices == {[n \in SchedNodes |-> IF n = "n1" THEN 12 ELSE 10]}

\* failovers counts the failovers of the download the worker is in, requests
\* the requests it has issued
IdleWorker == [pc |-> "none", chunk_info |-> None, attempted |-> {},
               node_url |-> None, attempt |-> 0, failovers |-> 0,
               requests |-> 0]

SchedInit ==
    /\ download_semaphore = max_concurrent_downloads
    /\ node_load = [n \in SchedNodes |-> 0]
    /\ active_downloads = << >>
    /\ chunk_sources = << >>
    /\ total_downloads = 0
    /\ failed_downloads = 0
    /\ failover_count = 0
    /\ healthy \in HealthChoices
    /\ node_score \in ScoreChoices
    /\ call_state = [c \in Calls |-> "new"]
    /\ queue = [c \in Calls |-> <<>>]
    /\ results = [c \in Calls |-> << >>]
    /\ requested = [c \in Calls |-> <<>>]
    /\ worker = [w \in Workers |-> IdleWorker]

\* a dict assignment that is lost
DictSetLost(f, k, v) == f

\* f with key k set to v (a dict assignment)
DictSet(f, k, v) == [x \in DOMAIN f \cup {k} |-> IF x = k THEN v ELSE f[x]]

\* f without key k (del f[k] guarded by "if k in f")
DictDel(f, k) == [x \in DOMAIN f \ {k} |-> f[x]]

\* the elements of a list that satisfy a membership test, in list order
FilterSeq(list, keep) == SelectSeq(list, LAMBDA n : n \in keep)

\* the scores compared without the load penalty
BetterRaw(a, b, load) == node_score[a] > node_score[b]

\* score(a) / (1 + 0.2 load(a)) > score(b) / (1 + 0.2 load(b)), cross-multiplied
BetterAdjusted(a, b, load) ==
    node_score[a] * (5 + load[b]) > node_score[b] * (5 + load[a])

\* select_best_node under the load counters as they are when it is called:
\* the first node of the candidates with the highest load-adjusted score; the
\* candidates are the healthy replicas, or all of them when none is healthy
select_best_node(available_replicas, load) ==
    LET healthy_replicas ==
            IF FilterSeq(available_replicas, healthy) = <<>>
            THEN available_replicas
            ELSE FilterSeq(available_replicas, healthy)
        n == Len(healthy_replicas)
        best == CHOOSE i \in 1..n :
                    /\ \A j \in 1..n :
                          ~BetterAdjusted(healthy_replicas[j], healthy_replicas[i], load)
                    /\ \A j \in 1..(i - 1) :
                          BetterAdjusted(healthy_replicas[i], healthy_replicas[j], load)
    IN  healthy_replicas[best]

\* the scheduler as constructed, with one monitor reading
SchedIdle ==
    /\ SchedInit
    /\ healthy = SchedNodes

\* download_chunks_parallel up to the first await: fill the queue and create
\* min(len(chunks), max_concurrent_downloads) worker tasks
download_chunks_parallel(c, chunks_to_download) ==
    /\ call_state[c] = "new"
    /\ \A d \in Calls : d < c => call_state[d] # "new"
    /\ call_state' = [call_state EXCEPT ![c] = "running"]
    /\ queue' = [queue EXCEPT ![c] = chunks_to_download]
    /\ requested' = [requested EXCEPT ![c] = chunks_to_download]
    /\ worker' = [w \in Workers |->
                    IF w[1] = c /\ w[2] <= Min(Len(chunks_to_download), max_concurrent_downloads)
                    THEN [IdleWorker EXCEPT !.pc = "get"]
                    ELSE worker[w]]
    /\ UNCHANGED <<download_semaphore, node_load, active_downloads, chunk_sources,
                   total_downloads, failed_downloads, failover_count, healthy,
                   node_score, results>>

\* the while loop of download_chunk from its head to the next await, for a
\* worker in state rec that holds a permit, with the load counters, the
\* active downloads and the permits as the code before it left them: either
\* the best remaining node is selected and the first request to it is issued
\* (_download_from_node marks the node busy), or every replica has been
\* attempted and the chunk fails (return None releases the permit and the
\* worker stores the result)
WhileLoop(w, rec, load, active, permits) ==
    LET info == rec.chunk_info[1]
        remaining_replicas == FilterSeq(info.replicas, SchedNodes \ rec.attempted)
    IN  IF Cardinality(rec.attempted) < Len(info.replicas) /\ remaining_replicas # <<>>
        THEN LET node_url == select_best_node(remaining_replicas, load)
             IN  /\ worker' = [worker EXCEPT ![w] =
                                 [rec EXCEPT !.pc = "request",
                                             !.node_url = Some(node_url),
                                             !.attempted = @ \cup {node_url},
                                             !.attempt = 0,
                                             !.requests = @ + 1]]
                 /\ active_downloads' = DictSet(active, info.chunk_id, node_url)
                 /\ node_load' = [load EXCEPT ![node_url] = @ + 1]
                 /\ download_semaphore' = permits
                 /\ UNCHANGED <<failed_downloads, results>>
        ELSE /\ failed_downloads' = failed_downloads + 1
             /\ download_semaphore' = permits + 1
             /\ results' = [results EXCEPT ![w[1]] = DictSet(@, info.chunk_id, "nil")]
             /\ worker' = [worker EXCEPT ![w] = [IdleWorker EXCEPT !.pc = "get"]]
             /\ node_load' = load
             /\ active_downloads' = active

\* a semaphore that lets every caller in
PermitFreeAlways(permits) == TRUE

\* a permit can be taken
PermitFree(permits) == permits > 0

\* worker(): queue.get_nowait(), then download_chunk: with a free permit the
\* semaphore is entered without suspending and the while loop starts; without
\* one the worker waits on the semaphore
WorkerGet(w) ==
    /\ worker[w].pc = "get"
    /\ IF queue[w[1]] = <<>>
       THEN /\ worker' = [worker EXCEPT ![w] = [IdleWorker EXCEPT !.pc = "exit"]]
            /\ UNCHANGED <<queue, download_semaphore, node_load, active_downloads,
                           failed_downloads, results>>
       ELSE LET rec == [IdleWorker EXCEPT !.chunk_info = Some(Head(queue[w[1]]))]
            IN  /\ queue' = [queue EXCEPT ![w[1]] = Tail(@)]
                /\ IF PermitFree(download_semaphore)
                   THEN WhileLoop(w, rec, node_load, active_downloads,
                                  download_semaphore - 1)
                   ELSE /\ worker' = [worker EXCEPT ![w] = [rec EXCEPT !.pc = "acquire"]]
                        /\ UNCHANGED <<download_semaphore, node_load, active_downloads,
                                       failed_downloads, results>>
    /\ UNCHANGED <<chunk_sources, total_downloads, failover_count, healthy,
                   node_score, call_state, requested>>

\* a worker waiting on the semaphore gets a permit and starts the while loop
Acquire(w) ==
    /\ worker[w].pc = "acquire"
    /\ PermitFree(download_semaphore)
    /\ WhileLoop(w, worker[w], node_load, active_downloads, download_semaphore - 1)
    /\ UNCHANGED <<chunk_sources, total_downloads, failover_count, healthy,
                   node_score, call_state, requested, queue>>

\* a finally block that leaves the load counter as it is
LoadAfterRequestKept(load, node_url) == load

\* the finally block of _download_from_node: the node's load counter
LoadAfterRequest(load, node_url) ==
    [load EXCEPT ![node_url] = IF @ - 1 > 0 THEN @ - 1 ELSE 0]

\* a download that gives a node up after its first failure
RetriesLeftNever(attempt) == FALSE

\* a loop that makes one attempt too many
RetriesLeftOneMore(attempt) == attempt < MAX_RETRIES

\* for attempt in range(retry_count): another attempt follows this one
RetriesLeft(attempt) == attempt < MAX_RETRIES - 1

\* the request of worker w ends: with the chunk's bytes (ok), or by an error,
\* a non-200 status or a timeout
Response(w, ok) ==
    /\ worker[w].pc = "request"
    /\ LET info == worker[w].chunk_info[1]
           node_url == worker[w].node_url[1]
           load == LoadAfterRequest(node_load, node_url)
           active == DictDel(active_downloads, info.chunk_id)
       IN  IF ok
           THEN \* _record_successful_download, return chunk_data
                /\ total_downloads' = total_downloads + 1
                /\ chunk_sources' = DictSet(chunk_sources, info.chunk_id, node_url)
                /\ download_semaphore' = download_semaphore + 1
                /\ results' = [results EXCEPT ![w[1]] = DictSet(@, info.chunk_id, "bytes")]
                /\ worker' = [worker EXCEPT ![w] = [IdleWorker EXCEPT !.pc = "get"]]
                /\ node_load' = load
                /\ active_downloads' = active
                /\ UNCHANGED <<failover_count, failed_downloads>>
           ELSE IF RetriesLeft(worker[w].attempt)
           THEN \* exponential backoff before the retry
                /\ worker' = [worker EXCEPT ![w].pc = "backoff"]
                /\ node_load' = load
                /\ active_downloads' = active
                /\ UNCHANGED <<total_downloads, chunk_sources, download_semaphore,
                               results, failover_count, failed_downloads>>
           ELSE \* all retries failed for this node: fail over
                /\ failover_count' = failover_count + 1
                /\ WhileLoop(w, [worker[w] EXCEPT !.failovers = @ + 1], load, active,
                             download_semaphore)
                /\ UNCHANGED <<total_downloads, chunk_sources>>
    /\ UNCHANGED <<healthy, node_score, call_state, requested, queue>>

\* the backoff sleep ends: the next attempt against the same node
Retry(w) ==
    /\ worker[w].pc = "backoff"
    /\ worker' = [worker EXCEPT ![w].pc = "request", ![w].attempt = @ + 1,
                                ![w].requests = @ + 1]
    /\ active_downloads' = DictSet(active_downloads, worker[w].chunk_info[1].chunk_id,
                                   worker[w].node_url[1])
    /\ node_load' = [node_load EXCEPT ![worker[w].node_url[1]] = @ + 1]
    /\ UNCHANGED <<download_semaphore, chunk_sources, total_downloads, failed_downloads,
                   failover_count, healthy, node_score, call_state, requested, queue, results>>

(***************************************************************************)
(* Ballot numbers (metadata-service/consensus.py).                         *)
(***************************************************************************)
VARIABLES
    ballot_counter,         \* ChunkPaxos.ballot_counter
    issued                  \* ballots returned so far, in order

ballotVars == <<ballot_counter, issued>>

CounterMask == 2 ^ CounterBits

\* (timestamp << 16) | (self.ballot_counter & 0xFFFF)
BallotNumber(timestamp, counter) == timestamp * CounterMask + (counter % CounterMask)

\* the counter either is fresh or has already been advanced 65534 times
BallotInit ==
    /\ ballot_counter \in {0, CounterMask - 2}
    /\ issued = <<>>

\* one call of _generate_ballot_number, the clock reading timestamp
generate_ballot_number(timestamp) ==
    /\ ballot_counter' = ballot_counter + 1
    /\ issued' = Append(issued, BallotNumber(timestamp, ballot_counter + 1))

\* the ballot generator as constructed (consensus.py line 43)
BallotFresh ==
    /\ ballot_counter = 0
    /\ issued = <<>>

(***************************************************************************)
(* ChunkPaxos over the metadata database (metadata-service/consensus.py,   *)
(* metadata-service/database.py).  All coroutines of the coordinator use   *)
(* the one connection the DatabaseManager holds: db is what a statement on *)
(* that connection sees, durable is what the last conn.commit() made       *)
(* permanent.  A table is the set of its rows.  An action runs a call from *)
(* one suspension to the next: the statement a coroutine issues right      *)
(* after it resumes belongs to the same action, and a consensus_state      *)
(* write is taken together with the conn.commit() that follows it.         *)
(***************************************************************************)
VARIABLES
    db,                     \* the connection's view, pending writes included
    durable,                \* the database as of the last conn.commit()
    proc,                   \* the running propose_chunk_placement calls;
                            \* conflict: a prepare answer of the attempt
                            \* now in Accept raised BallotConflictException
    proposals,              \* number of calls started
    committed_quorum        \* per chunk: quorum_size of its last successful
                            \* replication commit, 0 when there is none

paxosVars == <<db, durable, proc, proposals, committed_quorum>>

Proposers == {1, 2}
StorageNodes == {"s1", "s2", "s3"}
ChunkIds == {"c1", "c2"}
VideoIds == {"v1", "v2"}
SequenceNums == {0, 1}

erasure_total_shards == erasure_data_shards + erasure_parity_shards

\* range(n) as a list of fragment indices
IndexList(n) == [i \in 1..n |-> i - 1]

\* fragments_metadata of an erasure commit request, each fragment by its
\* fragment_index: missing, empty, too short, exact, too long
FragmentsChoices ==
    {None, Some(<<>>), Some(IndexList(erasure_total_shards - 1)),
     Some(IndexList(erasure_total_shards)), Some(IndexList(erasure_total_shards + 1))}

ChunkCommitRequest(c, ns, v, s, mode, f) ==
    [chunk_id |-> c, node_urls |-> ns, video_id |-> v, sequence_num |-> s,
     redundancy_mode |-> mode, fragments_metadata |-> f]

\* the commit requests offered to the coordinator: chunk c1 replicated on
\* three nodes in the first slot of either video; chunk c2 replicated on one
\* node in the slot of c1 or in the next slot; c2 erasure coded in the next
\* slot
CommitRequests ==
    {ChunkCommitRequest("c1", StorageNodes, v, 0, "replication", None) : v \in VideoIds}
    \cup {ChunkCommitRequest("c2", {"s1"}, "v1", s, "replication", None) : s \in SequenceNums}
    \cup {ChunkCommitRequest("c2", StorageNodes, "v1", 1, "erasure_coding", f) :
            f \in FragmentsChoices}

\* the requests offered while another proposal is running
ConcurrentRequests ==
    {ChunkCommitRequest("c1", StorageNodes, "v1", 0, "replication", None),
     ChunkCommitRequest("c2", {"s1"}, "v1", 1, "replication", None)}

\* the tables after _create_tables and create_video for every video
EmptyDb ==
    [chunks |-> {}, chunk_replicas |-> {}, chunk_fragments |-> {},
     videos |-> [v \in VideoIds |-> 0], consensus_state |-> {}]

IdleProposal ==
    [pc |-> "idle", request |-> None, ballot_number |-> 0, attempt |-> 0,
     responses |-> {}, conflict |-> FALSE]

PaxosInit ==
    /\ db = EmptyDb
    /\ durable = EmptyDb
    /\ proc = [p \in Proposers |-> IdleProposal]
    /\ proposals = 0
    /\ committed_quorum = [c \in ChunkIds |-> 0]

\* INSERT OR REPLACE: the rows that conflict with the new row on a primary
\* key or a UNIQUE constraint are deleted, then the row is inserted
InsertOrReplace(table, row, conflicting) ==
    (table \ conflicting) \cup {row}

ChunksConflict(r, row) ==
    \/ r.chunk_id = row.chunk_id
    \/ r.video_id = row.video_id /\ r.sequence_num = row.sequence_num

ReplicasConflict(r, row) == r.chunk_id = row.chunk_id /\ r.node_url = row.node_url

FragmentsConflict(r, row) ==
    r.chunk_id = row.chunk_id /\ r.fragment_index = row.fragment_index

ConsensusConflict(r, row) == r.chunk_id = row.chunk_id

\* the phase column of a chunk's consensus_state row, 'none' without a row
Phase(st, chunk_id) ==
    IF \E r \in st.consensus_state : r.chunk_id = chunk_id
    THEN (CHOOSE r \in st.consensus_state : r.chunk_id = chunk_id).phase
    ELSE "none"

\* the chunk ids get_video_manifest lists for a video: the rows of chunks
\* with that video_id, whatever their replicas and consensus phase
ManifestChunks(st, video_id) ==
    {r.chunk_id : r \in {x \in st.chunks : x.video_id = video_id}}

ActiveReplicas(st, chunk_id) == {r \in st.chunk_replicas : r.chunk_id = chunk_id}

FragmentIndices(st, chunk_id) ==
    {r.fragment_index : r \in {x \in st.chunk_fragments : x.chunk_id = chunk_id}}

\* the statement of _update_consensus_state
update_consensus_state(st, chunk_id, ballot_number, phase) ==
    [st EXCEPT !.consensus_state =
        LET row == [chunk_id |-> chunk_id, promised_ballot |-> ballot_number,
                    phase |-> phase]
        IN  InsertOrReplace(@, row, {r \in @ : ConsensusConflict(r, row)})]

\* a cleanup that deletes the replica rows of the chunk whatever their ballot
cleanup_every_ballot(st, chunk_id, ballot_number) ==
    [st EXCEPT
        !.chunk_replicas = {r \in @ : r.chunk_id # chunk_id},
        !.consensus_state = {IF r.chunk_id = chunk_id THEN [r EXCEPT !.phase = "none"] ELSE r :
                                r \in @}]

\* the two statements of _cleanup_failed_consensus
cleanup_failed_consensus(st, chunk_id, ballot_number) ==
    [st EXCEPT
        !.chunk_replicas = {r \in @ : ~(r.chunk_id = chunk_id /\ r.ballot_number = ballot_number)},
        !.consensus_state = {IF r.chunk_id = chunk_id THEN [r EXCEPT !.phase = "none"] ELSE r :
                                r \in @}]

\* a quorum of one node whatever the number of nodes
quorum_size_one(node_urls) == 1

quorum_size(node_urls) == Cardinality(node_urls) \div 2 + 1

\* what a storage node can answer to the prepare HEAD request
PrepareAnswers(ballot_number) ==
    {[status_code |-> 404, existing_ballot |-> 0],
     [status_code |-> 200, existing_ballot |-> ballot_number - 1],
     [status_code |-> 200, existing_ballot |-> ballot_number],
     [status_code |-> 200, existing_ballot |-> ballot_number + 1],
     [status_code |-> 409, existing_ballot |-> 0],
     [status_code |-> 500, existing_ballot |-> 0]}

\* _send_prepare_request: True, False, or the BallotConflictException raised
send_prepare_request(response, ballot_number) ==
    IF response.status_code = 404 THEN "True"
    ELSE IF response.status_code = 200
         THEN IF ballot_number > response.existing_ballot THEN "True"
              ELSE IF ballot_number < response.existing_ballot THEN "BallotConflictException"
              ELSE "True"
    ELSE "False"

\* what a storage node can answer to the accept HEAD request
AcceptAnswers ==
    {[status_code |-> 200, etag_matches |-> TRUE],
     [status_code |-> 200, etag_matches |-> FALSE],
     [status_code |-> 404, etag_matches |-> FALSE]}

send_accept_request(response) ==
    response.status_code = 200 /\ response.etag_matches

\* a phase ended below quorum: back off for a retry, or, after the last
\* attempt, QuorumNotReachedException: clean up and return (False, [])
BelowQuorum(p) ==
    IF proc[p].attempt < max_retries - 1
    THEN /\ proc' = [proc EXCEPT ![p].pc = "backoff", ![p].responses = {},
                                 ![p].conflict = FALSE]
         /\ UNCHANGED <<db, durable>>
    ELSE /\ db' = cleanup_failed_consensus(db, proc[p].request[1].chunk_id,
                                           proc[p].ballot_number)
         /\ durable' = db'
         /\ proc' = [proc EXCEPT ![p] = IdleProposal]

\* propose_chunk_placement up to the prepare requests: the first ballot,
\* phase PREPARE persisted by _prepare_phase
Propose(p, request, timestamp) ==
    /\ proc[p].pc = "idle"
    /\ proposals < MaxProposals
    /\ generate_ballot_number(timestamp)
    /\ proposals' = proposals + 1
    /\ db' = update_consensus_state(db, request.chunk_id,
                                    BallotNumber(timestamp, ballot_counter + 1), "prepare")
    /\ durable' = db'
    /\ proc' = [proc EXCEPT ![p] =
                  [pc |-> "prepare_wait", request |-> Some(request),
                   ballot_number |-> BallotNumber(timestamp, ballot_counter + 1),
                   attempt |-> 0, responses |-> {}, conflict |-> FALSE]]
    /\ UNCHANGED committed_quorum

\* the prepare answers are gathered (exceptions returned as results) and
\* the nodes that returned True are kept; with a quorum of them
\* _accept_phase persists phase ACCEPT and sends the accept requests
prepare_responses(p, answers) ==
    /\ proc[p].pc = "prepare_wait"
    /\ LET gathered == [n \in DOMAIN answers |->
                          send_prepare_request(answers[n], proc[p].ballot_number)]
           successful_nodes == {n \in DOMAIN answers : gathered[n] = "True"}
       IN  IF Cardinality(successful_nodes) < quorum_size(proc[p].request[1].node_urls)
           THEN BelowQuorum(p)
           ELSE /\ db' = update_consensus_state(db, proc[p].request[1].chunk_id,
                                                proc[p].ballot_number, "accept")
                /\ durable' = db'
                /\ proc' = [proc EXCEPT
                              ![p].pc = "accept_wait",
                              ![p].responses = successful_nodes,
                              ![p].conflict = \E n \in DOMAIN answers :
                                                 gathered[n] = "BallotConflictException"]
    /\ UNCHANGED <<proposals, committed_quorum, ballotVars>>

\* after the backoff sleep: a new ballot and the next attempt, phase
\* PREPARE persisted again
NextAttempt(p, timestamp) ==
    /\ proc[p].pc = "backoff"
    /\ generate_ballot_number(timestamp)
    /\ db' = update_consensus_state(db, proc[p].request[1].chunk_id,
                                    BallotNumber(timestamp, ballot_counter + 1), "prepare")
    /\ durable' = db'
    /\ proc' = [proc EXCEPT ![p].pc = "prepare_wait",
                            ![p].ballot_number = BallotNumber(timestamp, ballot_counter + 1),
                            ![p].attempt = @ + 1]
    /\ UNCHANGED <<proposals, committed_quorum>>

\* the accept answers are gathered; with a quorum of them _commit_phase
\* starts with INSERT OR REPLACE INTO chunks
accept_responses(p, answers) ==
    /\ proc[p].pc = "accept_wait"
    /\ LET accepted_nodes == {n \in DOMAIN answers : send_accept_request(answers[n])}
           request == proc[p].request[1]
       IN  IF Cardinality(accepted_nodes) < quorum_size(request.node_urls)
           THEN BelowQuorum(p)
           ELSE /\ LET row == [chunk_id |-> request.chunk_id,
                                video_id |-> request.video_id,
                                sequence_num |-> request.sequence_num,
                                redundancy_mode |-> request.redundancy_mode]
                   IN  db' = [db EXCEPT !.chunks =
                                InsertOrReplace(@, row, {r \in @ : ChunksConflict(r, row)})]
                /\ proc' = [proc EXCEPT ![p].pc = "commit_rows",
                                        ![p].responses = accepted_nodes,
                                        ![p].conflict = FALSE]
                /\ UNCHANGED durable
    /\ UNCHANGED <<proposals, committed_quorum, ballotVars>>

\* an empty or missing list is falsy
Truthy(fragments_metadata) == fragments_metadata # None /\ fragments_metadata[1] # <<>>

\* fragment rows when the mode is erasure_coding and fragments_metadata is
\* truthy, replica rows of the accepted nodes otherwise
commit_rows(p) ==
    /\ proc[p].pc = "commit_rows"
    /\ LET request == proc[p].request[1]
           frags == request.fragments_metadata[1]
       IN  IF request.redundancy_mode = "erasure_coding" /\ Truthy(request.fragments_metadata)
           THEN db' = [db EXCEPT !.chunk_fragments =
                         {r \in @ : ~\E i \in DOMAIN frags :
                                       FragmentsConflict(r, [chunk_id |-> request.chunk_id,
                                                             fragment_index |-> frags[i]])}
                         \cup {[chunk_id |-> request.chunk_id, fragment_index |-> frags[i]] :
                                  i \in DOMAIN frags}]
           ELSE db' = [db EXCEPT !.chunk_replicas =
                         {r \in @ : ~\E n \in proc[p].responses :
                                       ReplicasConflict(r, [chunk_id |-> request.chunk_id,
                                                            node_url |-> n])}
                         \cup {[chunk_id |-> request.chunk_id, node_url |-> n,
                                ballot_number |-> proc[p].ballot_number] :
                                  n \in proc[p].responses}]
    /\ proc' = [proc EXCEPT ![p].pc = "commit_total"]
    /\ UNCHANGED <<durable, proposals, committed_quorum, ballotVars>>

\* UPDATE videos SET total_chunks = COUNT(DISTINCT chunk_id) of this video
commit_total(p) ==
    /\ proc[p].pc = "commit_total"
    /\ LET video_id == proc[p].request[1].video_id
       IN  db' = [db EXCEPT !.videos[video_id] = Cardinality(ManifestChunks(db, video_id))]
    /\ proc' = [proc EXCEPT ![p].pc = "commit_tx"]
    /\ UNCHANGED <<durable, proposals, committed_quorum, ballotVars>>

\* conn.commit(): everything pending on the connection becomes durable
commit_tx(p) ==
    /\ proc[p].pc = "commit_tx"
    /\ durable' = db
    /\ proc' = [proc EXCEPT ![p].pc = "commit_state"]
    /\ UNCHANGED <<db, proposals, committed_quorum, ballotVars>>

\* phase COMMITTED is persisted and the call returns (True, accepted_nodes)
commit_state(p) ==
    /\ proc[p].pc = "commit_state"
    /\ LET request == proc[p].request[1]
       IN  /\ db' = update_consensus_state(db, request.chunk_id, proc[p].ballot_number,
                                           "committed")
           /\ committed_quorum' =
                [committed_quorum EXCEPT ![request.chunk_id] =
                    IF request.redundancy_mode = "replication"
                    THEN quorum_size(request.node_urls) ELSE 0]
    /\ durable' = db'
    /\ proc' = [proc EXCEPT ![p] = IdleProposal]
    /\ UNCHANGED <<proposals, ballotVars>>

\* the commit-phase statements that follow the chunk row
CommitSteps == {"commit_rows", "commit_total", "commit_tx"}

\* the next statement of the commit phase raises: the generic handler of
\* propose_chunk_placement cleans up and returns (False, [])
commit_fault(p) ==
    /\ proc[p].pc \in CommitSteps
    /\ db' = cleanup_failed_consensus(db, proc[p].request[1].chunk_id, proc[p].ballot_number)
    /\ durable' = db'
    /\ proc' = [proc EXCEPT ![p] = IdleProposal]
    /\ UNCHANGED <<proposals, committed_quorum, ballotVars>>

(***************************************************************************)
(* Node selection on its own (client/scheduler.py, select_best_node): the  *)
(* scheduler in the middle of other downloads, with any load counters, any *)
(* monitor reading and any replica list.                                   *)
(***************************************************************************)
VARIABLES
    candidates,     \* the available_replicas argument
    chosen          \* what select_best_node returned, None before the call

selVars == <<candidates, chosen>>

SelectNodes == {"n1", "n2", "n3"}

\* network_monitor.get_node_score readings
ScoreVals == {10, 12}

\* the lists of distinct nodes, the empty list included
ReplicaLists ==
    { l \in UNION { [1..n -> SelectNodes] : n \in 0..Cardinality(SelectNodes) } :
        \A i, j \in 1..Len(l) : i # j => l[i] # l[j] }

\* a scheduler with downloads under way on its nodes
SelectInit ==
    /\ download_semaphore = max_concurrent_downloads
    /\ node_load \in [SelectNodes -> 0..MaxLoad]
    /\ active_downloads = << >>
    /\ chunk_sources = << >>
    /\ total_downloads = 0
    /\ failed_downloads = 0
    /\ failover_count = 0
    /\ healthy \in SUBSET SelectNodes
    /\ node_score \in [SelectNodes -> ScoreVals]
    /\ call_state = [c \in Calls |-> "new"]
    /\ queue = [c \in Calls |-> <<>>]
    /\ results = [c \in Calls |-> << >>]
    /\ requested = [c \in Calls |-> <<>>]
    /\ worker = [w \in Workers |-> IdleWorker]
    /\ candidates \in ReplicaLists
    /\ chosen = None

SelectIdle ==
    /\ candidates = <<>>
    /\ chosen = None

\* node_url = self.select_best_node(chunk_id, available_replicas): None for
\* an empty list
SelectBest ==
    /\ chosen = None
    /\ candidates # <<>>
    /\ chosen' = Some(select_best_node(candidates, node_load))
    /\ UNCHANGED <<candidates, schedVars>>

\* the call on an empty replica list returns None
SelectNone ==
    /\ chosen = None
    /\ candidates = <<>>
    /\ chosen' = Some(None)
    /\ UNCHANGED <<candidates, schedVars>>

(***************************************************************************)
(* Redundancy policy (metadata-service/redundancy_manager.py).             *)
(***************************************************************************)
VARIABLES
    manual_overrides,   \* video_id -> RedundancyMode
    last_call           \* the last RedundancyManager call and what it returned

redVars == <<manual_overrides, last_call>>

RedundancyModes == {"replication", "erasure_coding"}

\* view counts on both sides of the threshold, and the threshold itself
ViewCounts == {popularity_threshold - 500, popularity_threshold - 1,
               popularity_threshold, popularity_threshold + 1,
               popularity_threshold + 500, 5 * popularity_threshold}

RedundancyInit ==
    /\ manual_overrides = << >>
    /\ last_call = None

\* a video as popular as the threshold is hot
HotInclusive(view_count) == view_count >= popularity_threshold

\* view_count > self.popularity_threshold
Hot(view_count) == view_count > popularity_threshold

\* manual_override is None or Some(mode); the returned mode is recorded
determine_redundancy_mode(video_id, view_count, manual_override) ==
    LET mode == IF manual_override # None THEN manual_override[1]
                ELSE IF video_id \in DOMAIN manual_overrides
                THEN manual_overrides[video_id]
                ELSE IF Hot(view_count) THEN "replication" ELSE "erasure_coding"
    IN  /\ manual_overrides' =
               IF manual_override # None
               THEN DictSet(manual_overrides, video_id, manual_override[1])
               ELSE manual_overrides
        /\ last_call' = Some([op |-> "determine", video_id |-> video_id,
                              view_count |-> view_count, mode |-> mode])

set_manual_override(video_id, mode) ==
    /\ manual_overrides' = DictSet(manual_overrides, video_id, mode)
    /\ last_call' = Some([op |-> "set", video_id |-> video_id,
                          view_count |-> 0, mode |-> mode])

clear_manual_override(video_id) ==
    /\ manual_overrides' = DictDel(manual_overrides, video_id)
    /\ last_call' = Some([op |-> "clear", video_id |-> video_id,
                          view_count |-> 0, mode |-> "none"])

(***************************************************************************)
(* Network monitor (client/network_monitor.py).  One probe of a node is    *)
(* one step: the HEAD /ping request with its answer and what _ping_node    *)
(* records for it.  Times are whole seconds, latencies whole milliseconds, *)
(* bandwidths whole Mbps; a score is the exact fraction <<num, den>> of    *)
(* the formula, den > 0.                                                   *)
(***************************************************************************)
VARIABLES
    latencies,      \* node_url -> deque of latency samples, oldest first
    bandwidths,     \* node_url -> deque of bandwidth samples
    success_rates,  \* node_url -> deque of 1 (success) and 0 (failure)
    last_update,    \* node_url -> time of the last successful ping, 0: never
    monitoring,
    node_urls,
    session,        \* TRUE: a ClientSession is attached
    monitor_task,   \* "none", "running" or "cancelled"
    mon_clock,      \* time.time()
    mon_last        \* the last NetworkMonitor call and the state it found

monVars == <<latencies, bandwidths, success_rates, last_update, monitoring,
             node_urls, session, monitor_task, mon_clock, mon_last>>

MonNodes == {"n1"}

LatencyVals == {10, 30}

BandwidthVals == {20}

\* what a node does with HEAD /ping
PingAnswers == {"2xx", "non2xx", "timeout", "error"}

TickSecs == {NODE_HEALTH_TIMEOUT, NODE_HEALTH_TIMEOUT + 1}

NodeLists == {<<"n1">>}

RECURSIVE fsum(_)
fsum(s) == IF s = <<>> THEN 0 ELSE Head(s) + fsum(Tail(s))

\* deque(maxlen=n).append(x)
deque_append(d, x, n) ==
    IF Len(d) < n THEN Append(d, x) ELSE Append(Tail(d), x)

LastN(s, n) == IF Len(s) <= n THEN s ELSE SubSeq(s, Len(s) - n + 1, Len(s))

MonitorInit ==
    /\ latencies = [n \in MonNodes |-> <<>>]
    /\ bandwidths = [n \in MonNodes |-> <<>>]
    /\ success_rates = [n \in MonNodes |-> <<>>]
    /\ last_update = [n \in MonNodes |-> 0]
    /\ monitoring = FALSE
    /\ node_urls = <<>>
    /\ session = FALSE
    /\ monitor_task = "none"
    /\ mon_clock = 1
    /\ mon_last = [op |-> "init"]

MonitorIdle == MonitorInit

\* the state of one node as the monitor holds it
NodeView(n) ==
    [lat |-> latencies[n], bw |-> bandwidths[n], sr |-> success_rates[n],
     lu |-> last_update[n]]

\* (avg_bandwidth * success_rate) / (1 + avg_latency * 0.1) over the three
\* windows, as a fraction
score_of_unreliability(lat, bw, sr) ==
    IF lat = <<>> THEN <<0, 1>>
    ELSE LET sumB == IF bw # <<>> THEN fsum(bw) ELSE default_bandwidth
             nB   == IF bw # <<>> THEN Len(bw) ELSE 1
             sumS == IF sr # <<>> THEN Len(sr) - fsum(sr) ELSE 0
             nS   == IF sr # <<>> THEN Len(sr) ELSE 1
         IN  <<sumB * sumS * 10 * Len(lat),
               nB * nS * (10 * Len(lat) + fsum(lat))>>

score_of(lat, bw, sr) ==
    IF lat = <<>> THEN <<0, 1>>
    ELSE LET sumB == IF bw # <<>> THEN fsum(bw) ELSE default_bandwidth
             nB   == IF bw # <<>> THEN Len(bw) ELSE 1
             sumS == IF sr # <<>> THEN fsum(sr) ELSE 0
             nS   == IF sr # <<>> THEN Len(sr) ELSE 1
         IN  <<sumB * sumS * 10 * Len(lat),
               nB * nS * (10 * Len(lat) + fsum(lat))>>

get_node_score(n) == score_of(latencies[n], bandwidths[n], success_rates[n])

ScoreLeq(a, b) == a[1] * b[2] <= b[1] * a[2]

ScoreZero(a) == a[1] = 0

is_node_healthy(n) ==
    LET last_seen == last_update[n]
        recent    == LastN(success_rates[n], recent_samples)
    IN  IF last_seen = 0 THEN FALSE
        ELSE IF mon_clock - last_seen > NODE_HEALTH_TIMEOUT THEN FALSE
        ELSE IF success_rates[n] # <<>>
             THEN 2 * fsum(recent) > Len(recent)
             ELSE FALSE

start_monitoring(urls) ==
    /\ ~monitoring
    /\ node_urls' = urls
    /\ session' = TRUE
    /\ monitoring' = TRUE
    /\ monitor_task' = "running"
    /\ mon_last' = [op |-> "start", after_stop |-> (monitor_task = "cancelled")]
    /\ UNCHANGED <<latencies, bandwidths, success_rates, last_update, mon_clock>>

stop_monitoring ==
    /\ monitoring
    /\ monitoring' = FALSE
    /\ session' = FALSE
    /\ monitor_task' = "cancelled"
    /\ mon_last' = [op |-> "stop"]
    /\ UNCHANGED <<latencies, bandwidths, success_rates, last_update,
                   node_urls, mon_clock>>

\* the response came back: any status leaves the "async with" body running
Answered(answer) == answer \in {"2xx", "non2xx"}

_ping_node(n, answer, latency) ==
    /\ mon_last' = [op |-> "ping", node |-> n, answer |-> answer,
                    latency |-> latency, before |-> NodeView(n)]
    /\ UNCHANGED <<monitoring, node_urls, session, monitor_task, mon_clock>>
    /\ IF Answered(answer)
       THEN /\ latencies' = [latencies EXCEPT
                                ![n] = deque_append(@, latency, history_size)]
            /\ success_rates' = [success_rates EXCEPT
                                ![n] = deque_append(@, 1, success_maxlen)]
            /\ last_update' = [last_update EXCEPT ![n] = mon_clock]
            /\ bandwidths' = [bandwidths EXCEPT
                                ![n] = IF @ = <<>> THEN <<default_bandwidth>>
                                       ELSE @]
       ELSE /\ success_rates' = [success_rates EXCEPT
                                ![n] = deque_append(@, 0, success_maxlen)]
            /\ UNCHANGED <<latencies, bandwidths, last_update>>

\* one pass of _monitoring_loop pings the nodes of node_urls while the task
\* runs
PingNode(n, answer, latency) ==
    /\ monitoring
    /\ monitor_task = "running"
    /\ \E i \in 1..Len(node_urls) : node_urls[i] = n
    /\ session
    /\ _ping_node(n, answer, latency)

update_bandwidth(n, bandwidth_mbps) ==
    /\ bandwidths' = [bandwidths EXCEPT
                         ![n] = deque_append(@, bandwidth_mbps, history_size)]
    /\ mon_last' = [op |-> "bandwidth", node |-> n]
    /\ UNCHANGED <<latencies, success_rates, last_update, monitoring,
                   node_urls, session, monitor_task, mon_clock>>

MonTick(d) ==
    /\ mon_clock + d <= 1 + MaxClock * (NODE_HEALTH_TIMEOUT + 1)
    /\ mon_clock' = mon_clock + d
    /\ UNCHANGED <<latencies, bandwidths, success_rates, last_update,
                   monitoring, node_urls, session, monitor_task, mon_last>>

(***************************************************************************)
(* Upload coordinator (uploader/upload_coordinator.py).  One upload_chunks *)
(* call over the chunks of a video; one attempt of _upload_single_chunk    *)
(* (the PUTs to the target nodes and, on quorum, the commit request) is    *)
(* one step.  The semaphore has more permits than the call has chunks and  *)
(* never blocks.                                                           *)
(***************************************************************************)
VARIABLES
    storage_nodes,  \* what get_healthy_nodes returned, None before the call
    up_call,        \* "idle", "running", "refused", "done" or "failed"
    up_task,        \* chunk_id -> the _upload_single_chunk task
    stored,         \* node_url -> chunks the storage node holds
    commits,        \* the commit requests sent to the metadata service
    put_sent        \* a PUT was sent to a storage node

upVars == <<storage_nodes, up_call, up_task, stored, commits, put_sent>>

UpNodes == {"s1", "s2", "s3", "s4"}

UpChunks == {"c1", "c2"}

PendingTask == [pc |-> "pending", attempt |-> 0, target_nodes |-> {}]

UploaderInit ==
    /\ storage_nodes = None
    /\ up_call = "idle"
    /\ up_task = [c \in UpChunks |-> PendingTask]
    /\ stored = [n \in UpNodes |-> {}]
    /\ commits = {}
    /\ put_sent = FALSE

UploaderIdle == UploaderInit

\* upload_chunks up to the creation of the chunk tasks
upload_chunks(healthy_nodes) ==
    /\ up_call = "idle"
    /\ storage_nodes' = Some(healthy_nodes)
    /\ up_call' = IF Cardinality(healthy_nodes) < replicas_per_chunk
                  THEN "refused" ELSE "running"
    /\ UNCHANGED <<up_task, stored, commits, put_sent>>

\* random.sample(storage_nodes, min(replicas_per_chunk, len(storage_nodes)))
Samples(nodes) ==
    {t \in SUBSET nodes :
        Cardinality(t) = Min(replicas_per_chunk, Cardinality(nodes))}

select_targets(c, target_nodes) ==
    /\ up_call = "running"
    /\ up_task[c].pc = "pending"
    /\ target_nodes \in Samples(storage_nodes[1])
    /\ up_task' = [up_task EXCEPT ![c] = [pc |-> "attempt", attempt |-> 0,
                                          target_nodes |-> target_nodes]]
    /\ UNCHANGED <<storage_nodes, up_call, stored, commits, put_sent>>

min_replicas == Min(quorum_uploads, replicas_per_chunk)

\* the attempt failed: the loop goes on or the last exception is raised
AfterFailure(t) ==
    IF t.attempt < upload_max_retries - 1
    THEN [t EXCEPT !.attempt = @ + 1]
    ELSE [t EXCEPT !.pc = "failed"]

\* one pass of the retry loop: successful_nodes are the targets whose PUT
\* answered 200/201, commit_ok the outcome of _commit_chunk_placement
upload_attempt(c, successful_nodes, commit_ok) ==
    /\ up_call = "running"
    /\ up_task[c].pc = "attempt"
    /\ successful_nodes \subseteq up_task[c].target_nodes
    /\ put_sent' = TRUE
    /\ stored' = [n \in UpNodes |->
                    IF n \in successful_nodes THEN stored[n] \cup {c}
                    ELSE stored[n]]
    /\ IF Cardinality(successful_nodes) >= min_replicas
       THEN /\ commits' = commits \cup
                    {[chunk_id |-> c, node_urls |-> successful_nodes]}
            /\ up_task' = [up_task EXCEPT
                    ![c] = IF commit_ok THEN [@ EXCEPT !.pc = "committed"]
                           ELSE AfterFailure(@)]
       ELSE /\ commits' = commits
            /\ up_task' = [up_task EXCEPT ![c] = AfterFailure(@)]
    /\ UNCHANGED <<storage_nodes, up_call>>

\* asyncio.gather returned: any failed chunk fails the call
upload_finish ==
    /\ up_call = "running"
    /\ \A c \in UpChunks : up_task[c].pc \in {"committed", "failed"}
    /\ up_call' = IF \E c \in UpChunks : up_task[c].pc = "failed"
                  THEN "failed" ELSE "done"
    /\ UNCHANGED <<storage_nodes, up_task, stored, commits, put_sent>>

(***************************************************************************)
(* Node health (metadata-service/health_monitor.py and the storage_nodes   *)
(* table of metadata-service/database.py).  Times are seconds.  SQLite's   *)
(* CURRENT_TIMESTAMP is UTC; datetime.now() is the naive local time of the *)
(* host, utc_offset hours away from it.                                    *)
(***************************************************************************)
VARIABLES
    storage_node_rows,  \* node_id -> None or Some(row of storage_nodes)
    hm_clock,           \* UTC now
    utc_offset,         \* the host's time zone, hours east of UTC
    hm_last             \* the last call and the table it found

healthVars == <<storage_node_rows, hm_clock, utc_offset, hm_last>>

HealthNodes == {"node-1", "node-2"}

UtcOffsets == {-1, 0, 1}

HealthInit ==
    /\ storage_node_rows = [n \in HealthNodes |-> None]
    /\ hm_clock = 0
    /\ utc_offset \in UtcOffsets
    /\ hm_last = [op |-> "init"]

HealthIdle ==
    /\ storage_node_rows = [n \in HealthNodes |-> None]
    /\ hm_clock = 0
    /\ utc_offset = 0
    /\ hm_last = [op |-> "init"]

\* datetime.now()
LocalNow == hm_clock + utc_offset * 3600

register_storage_node(node_id) ==
    /\ storage_node_rows' = [storage_node_rows EXCEPT ![node_id] =
            Some([status |-> "healthy", last_heartbeat |-> hm_clock])]
    /\ hm_last' = [op |-> "register", node_id |-> node_id]
    /\ UNCHANGED <<hm_clock, utc_offset>>

\* the UPDATE touches the row of node_id if there is one
update_node_heartbeat(node_id) ==
    /\ storage_node_rows' = [storage_node_rows EXCEPT ![node_id] =
            IF @ = None THEN None
            ELSE Some([status |-> "healthy", last_heartbeat |-> hm_clock])]
    /\ hm_last' = [op |-> "heartbeat", node_id |-> node_id,
                   result |-> (storage_node_rows[node_id] # None)]
    /\ UNCHANGED <<hm_clock, utc_offset>>

Stale(row, cutoff_time) ==
    row.last_heartbeat < cutoff_time /\ row.status # "down"

_mark_unhealthy_nodes ==
    LET cutoff_time == LocalNow - heartbeat_timeout
    IN  /\ storage_node_rows' = [n \in HealthNodes |->
                IF storage_node_rows[n] # None /\ Stale(storage_node_rows[n][1], cutoff_time)
                THEN Some([storage_node_rows[n][1] EXCEPT !.status = "down"])
                ELSE storage_node_rows[n]]
        /\ hm_last' = [op |-> "mark", at |-> hm_clock,
                       before |-> storage_node_rows]
        /\ UNCHANGED <<hm_clock, utc_offset>>

\* _probe_single_node of a registered node: a 200 answer of a node read as
\* down marks it recovered (_mark_node_recovered)
_probe_single_node(node_id, responds) ==
    /\ storage_node_rows[node_id] # None
    /\ storage_node_rows' = [storage_node_rows EXCEPT ![node_id] =
            IF responds /\ @[1].status = "down"
            THEN Some([status |-> "healthy", last_heartbeat |-> hm_clock])
            ELSE @]
    /\ hm_last' = [op |-> "probe", node_id |-> node_id, responds |-> responds]
    /\ UNCHANGED <<hm_clock, utc_offset>>

HealthTime ==
    /\ hm_clock < MaxHealthTicks * probe_interval
    /\ hm_clock' = hm_clock + probe_interval
    /\ UNCHANGED <<storage_node_rows, utc_offset, hm_last>>

(***************************************************************************)
(* Download loop (client/main.py, SmartClient._download_loop) over the     *)
(* playback buffer.  The manifest lists the chunks 0..MaxSeq.  The call of *)
(* download_chunks_parallel is the step from "downloading" to              *)
(* "delivering": it returns, for every chunk of the list, its bytes or     *)
(* None.  The loop adds the results without awaiting, so the consumer does *)
(* not run while the loop is "delivering".                                 *)
(***************************************************************************)
VARIABLES
    target_buffer_sec,  \* config.TARGET_BUFFER_SEC of this run
    download_pc,        \* "idle", "downloading", "delivering" or "waiting"
    download_list,      \* sequence numbers handed to download_chunks_parallel
    download_results,   \* the sequence numbers that came back with bytes
    last_plan           \* the last refill the loop computed, None before it

dlVars == <<target_buffer_sec, download_pc, download_list, download_results,
            last_plan>>

TargetBufferSecs ==
    {TARGET_BUFFER_SEC, TARGET_BUFFER_SEC - 5, LOW_WATER_MARK_SEC - 5}

ChunkBytes == <<7>>

DownloadInit ==
    /\ target_buffer_sec \in TargetBufferSecs
    /\ download_pc = "idle"
    /\ download_list = <<>>
    /\ download_results = <<>>
    /\ last_plan = None

DownloadIdle ==
    /\ target_buffer_sec = TARGET_BUFFER_SEC
    /\ download_pc = "idle"
    /\ download_list = <<>>
    /\ download_results = <<>>
    /\ last_plan = None

Max(a, b) == IF a >= b THEN a ELSE b

\* int(a / b) for b > 0: the quotient truncated towards zero
IntOfQuotient(a, b) == IF a >= 0 THEN a \div b ELSE -((-a) \div b)

chunks_to_download_count(level) ==
    Max(1, IntOfQuotient(target_buffer_sec - level, CHUNK_DURATION_SEC) + 2)

RECURSIVE MaxSequenceNum(_)
MaxSequenceNum(buf) ==
    IF Len(buf) = 1 THEN buf[1].sequence_num
    ELSE Max(buf[1].sequence_num, MaxSequenceNum(Tail(buf)))

\* list(range(buffer_end, buffer_end + count))
get_next_chunk_sequences(count) ==
    LET buffer_end == IF buffer # <<>> THEN MaxSequenceNum(buffer) + 1
                      ELSE current_position
    IN  [i \in 1..count |-> buffer_end + i - 1]

\* the sequence numbers _get_chunk_info finds in the manifest
RECURSIVE InManifest(_)
InManifest(seqs) ==
    IF seqs = <<>> THEN <<>>
    ELSE IF Head(seqs) \in SeqNums THEN <<Head(seqs)>> \o InManifest(Tail(seqs))
    ELSE InManifest(Tail(seqs))

\* the top of the loop body up to the call of download_chunks_parallel
download_plan ==
    /\ download_pc = "idle"
    /\ IF needs_more_chunks(buffer)
       THEN LET level == get_buffer_level_seconds(buffer)
                count == chunks_to_download_count(level)
                next_sequences == get_next_chunk_sequences(count)
                list == InManifest(next_sequences)
            IN  /\ last_plan' = Some([level |-> level, count |-> count,
                                      sequences |-> next_sequences])
                /\ download_list' = list
                /\ download_pc' = IF list # <<>> THEN "downloading" ELSE "waiting"
       ELSE /\ download_pc' = "waiting"
            /\ UNCHANGED <<last_plan, download_list>>
    /\ UNCHANGED <<target_buffer_sec, download_results>>

RECURSIVE Served(_, _)
Served(seqs, got) ==
    IF seqs = <<>> THEN <<>>
    ELSE IF Head(seqs) \in got THEN <<Head(seqs)>> \o Served(Tail(seqs), got)
    ELSE Served(Tail(seqs), got)

\* download_chunks_parallel returned: got are the chunks that came with bytes
download_returned(got) ==
    /\ download_pc = "downloading"
    /\ download_results' = Served(download_list, got)
    /\ download_list' = <<>>
    /\ download_pc' = IF Served(download_list, got) # <<>> THEN "delivering"
                      ELSE "waiting"
    /\ UNCHANGED <<target_buffer_sec, last_plan>>

\* one pass of "for chunk_id, chunk_data in results.items()"
download_deliver(spill_ok) ==
    /\ download_pc = "delivering"
    /\ add_chunk(Head(download_results), ChunkBytes, spill_ok)
    /\ download_results' = Tail(download_results)
    /\ download_pc' = IF Tail(download_results) = <<>> THEN "waiting"
                      ELSE "delivering"
    /\ UNCHANGED <<target_buffer_sec, download_list, last_plan>>

\* the end of the loop body: wait_for_buffer(timeout=1.0) when the buffer
\* needs no more chunks, else sleep(0.5)
download_wait ==
    /\ download_pc = "waiting"
    /\ download_pc' = "idle"
    /\ buffer_updated_event' =
            IF ~needs_more_chunks(buffer) THEN FALSE ELSE buffer_updated_event
    /\ UNCHANGED <<buffer, current_memory_usage, current_position, playback_started,
                   playback_ready_event, total_chunks_buffered, total_chunks_played,
                   rebuffering_events, temp_files, delivered, last_take, last_add>>
    /\ UNCHANGED <<target_buffer_sec, download_list, download_results, last_plan>>

\* the consumer takes the next chunk while the loop awaits
consumer_take ==
    /\ download_pc # "delivering"
    /\ get_next_chunk_for_playback
    /\ UNCHANGED dlVars

(***************************************************************************)
(* Playback (client/main.py, SmartClient.play_video, _download_loop and    *)
(* _playback_loop).  play_video sets playing and starts both loops; the    *)
(* playback loop clears it after the last chunk of the manifest.  Storage  *)
(* fails the download of a chunk at most once: the chunks in failed_once   *)
(* are served on every later request.                                      *)
(***************************************************************************)
VARIABLES
    playing,            \* SmartClient.playing
    play_pc,            \* "head", "ready_wait", "sleeping", "underrun" or "stopped"
    failed_once         \* sequence numbers whose download has returned None

playVars == <<playing, play_pc, failed_once>>

PlaybackInit ==
    /\ playing = TRUE
    /\ play_pc = "head"
    /\ failed_once = {}

PlaybackIdle ==
    /\ playing = FALSE
    /\ play_pc = "stopped"
    /\ failed_once = {}

\* manifest['total_chunks']
total_chunks == MaxSeq + 1

\* while self.playing, of the download loop
download_loop_exit ==
    /\ download_pc = "idle"
    /\ ~playing
    /\ download_pc' = "stopped"
    /\ UNCHANGED <<target_buffer_sec, download_list, download_results, last_plan>>

\* get_next_chunk_for_playback, with rebuffering_events left at MaxRebuffer
\* once it got there
playback_take ==
    IF buffer = <<>> /\ playback_started /\ rebuffering_events >= MaxRebuffer
    THEN /\ playback_ready_event' = FALSE
         /\ last_take' = None
         /\ UNCHANGED <<buffer, current_memory_usage, current_position, playback_started,
                        total_chunks_buffered, total_chunks_played, rebuffering_events,
                        temp_files, delivered, buffer_updated_event, last_add>>
    ELSE get_next_chunk_for_playback

\* the loop body from its head: wait for the start level before playback
\* has started, else take the next chunk
playback_head ==
    /\ play_pc = "head"
    /\ playing
    /\ IF ~can_start_playback(buffer) /\ ~playback_started
       THEN /\ play_pc' = "ready_wait"
            /\ UNCHANGED bufVars
       ELSE /\ playback_take
            /\ play_pc' = IF last_take' # None THEN "sleeping" ELSE "underrun"
    /\ UNCHANGED <<playing, failed_once>>

\* wait_for_playback_ready returned, the take follows
playback_ready ==
    /\ play_pc = "ready_wait"
    /\ playback_ready_event
    /\ playback_take
    /\ play_pc' = IF last_take' # None THEN "sleeping" ELSE "underrun"
    /\ UNCHANGED <<playing, failed_once>>

\* the chunk has played: after the last chunk playing is cleared and the
\* loop is left
playback_slept ==
    /\ play_pc = "sleeping"
    /\ IF last_take[1].sequence_num >= total_chunks - 1
       THEN playing' = FALSE /\ play_pc' = "stopped"
       ELSE playing' = playing /\ play_pc' = "head"
    /\ UNCHANGED failed_once

\* wait_for_buffer(timeout=1.0) after an underrun: the event, when set, is
\* consumed
playback_underrun ==
    /\ play_pc = "underrun"
    /\ play_pc' = "head"
    /\ buffer_updated_event' = FALSE
    /\ UNCHANGED <<buffer, current_memory_usage, current_position, playback_started,
                   playback_ready_event, total_chunks_buffered, total_chunks_played,
                   rebuffering_events, temp_files, delivered, last_take, last_add>>
    /\ UNCHANGED <<playing, failed_once>>

\* download_chunks_parallel returns: no chunk fails a second time
download_returned_once(got) ==
    /\ download_returned(got)
    /\ \A s \in failed_once : Served(download_list, {s}) = <<>> \/ s \in got
    /\ failed_once' = failed_once \cup
                      {s \in SeqNums : Served(download_list, {s}) # <<>> /\ s \notin got}
    /\ UNCHANGED <<playing, play_pc>>

(***************************************************************************)
(* Erasure codec (metadata-service/erasure_coding.py).  A chunk and a      *)
(* fragment are lists of bytes.  The codec is reedsolo's RSCodec(2) with   *)
(* its defaults: GF(2^8) reduced by 0x11d, generator 2, first root 2^0,    *)
(* one codeword of K + 2 symbols for each byte position.  An operation     *)
(* returns [ok |-> TRUE, value |-> v] or raises: [ok |-> FALSE, error].    *)
(***************************************************************************)
VARIABLES
    original,       \* the chunk handed to encode_chunk
    held,           \* the fragment indices that are still available
    encoded,        \* what encode_chunk returned, None before the call
    decoded,        \* what the decode call returned, None before the call
    entry           \* the decode entry point that was called

codecVars == <<original, held, encoded, decoded, entry>>

\* what the actions of one subsystem leave alone: the other subsystems
exceptBuf == <<schedVars, ballotVars, paxosVars, codecVars, selVars, redVars, monVars, upVars, healthVars, dlVars, playVars>>
exceptSched == <<bufVars, ballotVars, paxosVars, codecVars, selVars, redVars, monVars, upVars, healthVars, dlVars, playVars>>
exceptBallot == <<bufVars, schedVars, paxosVars, codecVars, selVars, redVars, monVars, upVars, healthVars, dlVars, playVars>>
exceptPaxos == <<bufVars, schedVars, codecVars, selVars, redVars, monVars, upVars, healthVars, dlVars, playVars>>
exceptCodec == <<bufVars, schedVars, ballotVars, paxosVars, selVars, redVars, monVars, upVars, healthVars, dlVars, playVars>>
exceptSel == <<bufVars, schedVars, ballotVars, paxosVars, codecVars, redVars, monVars, upVars, healthVars, dlVars, playVars>>
exceptRed == <<bufVars, schedVars, ballotVars, paxosVars, codecVars, selVars, monVars, upVars, healthVars, dlVars, playVars>>
exceptMon == <<bufVars, schedVars, ballotVars, paxosVars, codecVars, selVars, redVars, upVars, healthVars, dlVars, playVars>>
exceptUp == <<bufVars, schedVars, ballotVars, paxosVars, codecVars, selVars, redVars, monVars, healthVars, dlVars, playVars>>
exceptHealth == <<bufVars, schedVars, ballotVars, paxosVars, codecVars, selVars, redVars, monVars, upVars, dlVars, playVars>>
exceptDl == <<bufVars, schedVars, ballotVars, paxosVars, codecVars, selVars, redVars, monVars, upVars, healthVars, playVars>>
exceptDownload == <<schedVars, ballotVars, paxosVars, codecVars, selVars, redVars, monVars, upVars, healthVars, playVars>>
exceptPlay == <<bufVars, schedVars, ballotVars, paxosVars, codecVars, selVars, redVars, monVars, upVars, healthVars, dlVars>>

ByteVals == {0, 7, 200}

\* the byte strings of length n over ByteVals
BytesOfLen(n) == [1..n -> ByteVals]

Returned(v) == [ok |-> TRUE, value |-> v]

Raised(err) == [ok |-> FALSE, error |-> err]

\* a ^ b on non-negative integers
RECURSIVE BitXor(_, _)
BitXor(a, b) ==
    IF a = 0 THEN b
    ELSE IF b = 0 THEN a
    ELSE ((a + b) % 2) + 2 * BitXor(a \div 2, b \div 2)

\* the product in GF(2^8) modulo x^8 + x^4 + x^3 + x^2 + 1 (0x11d = 285)
RECURSIVE gf_mul(_, _)
gf_mul(x, y) ==
    IF y = 0 THEN 0
    ELSE LET x2 == IF 2 * x >= 256 THEN BitXor(2 * x, 285) ELSE 2 * x
             rest == gf_mul(x2, y \div 2)
         IN  IF y % 2 = 1 THEN BitXor(x, rest) ELSE rest

RECURSIVE gf_pow(_, _)
gf_pow(x, power) == IF power = 0 THEN 1 ELSE gf_mul(x, gf_pow(x, power - 1))

\* x^254 = 1/x, by x^254 = (x^127)^2 and x^127 = x * (x^63)^2, ...
RECURSIVE gf_pow_ones(_, _)
gf_pow_ones(x, bits) ==
    IF bits = 1 THEN x
    ELSE LET h == gf_pow_ones(x, bits - 1) IN gf_mul(x, gf_mul(h, h))

gf_inverse(x) == LET h == gf_pow_ones(x, 7) IN gf_mul(h, h)

gf_div(x, y) == gf_mul(x, gf_inverse(y))

\* Horner's rule over the first k coefficients, highest degree first
RECURSIVE Horner(_, _, _)
Horner(poly, x, k) ==
    IF k = 1 THEN poly[1] ELSE BitXor(gf_mul(Horner(poly, x, k - 1), x), poly[k])

gf_poly_eval(poly, x) == Horner(poly, x, Len(poly))

\* (x - 2^0)(x - 2^1), the generator polynomial of RSCodec(2)
rs_generator_poly ==
    <<1, BitXor(gf_pow(2, 0), gf_pow(2, 1)), gf_mul(gf_pow(2, 0), gf_pow(2, 1))>>

\* synthetic division of msg_out by the generator polynomial, from position i
RECURSIVE Divide(_, _)
Divide(msg_out, i) ==
    IF i > Len(msg_out) - erasure_parity_shards THEN msg_out
    ELSE LET coef == msg_out[i]
         IN  Divide([j \in 1..Len(msg_out) |->
                       IF coef # 0 /\ j > i /\ j <= i + erasure_parity_shards
                       THEN BitXor(msg_out[j], gf_mul(rs_generator_poly[j - i + 1], coef))
                       ELSE msg_out[j]], i + 1)

\* codec.encode: the message followed by the remainder of msg * x^2
rs_encode_msg(msg_in) ==
    LET zeros == [j \in 1..erasure_parity_shards |-> 0]
        remainder == Divide(msg_in \o zeros, 1)
    IN  msg_in \o SubSeq(remainder, Len(msg_in) + 1, Len(remainder))

\* the word evaluated at the roots 2^0 and 2^1
rs_calc_syndromes(msg) ==
    [i \in 1..erasure_parity_shards |-> gf_poly_eval(msg, gf_pow(2, i - 1))]

\* the locator of 0-based position pos in a word of nmess symbols
Locator(nmess, pos) == gf_pow(2, nmess - 1 - pos)

\* the word with the erased symbols replaced by the values that zero both
\* syndromes (the errata magnitudes for one or two erasures)
rs_correct_errata(msg, synd, erase_pos) ==
    IF Cardinality(erase_pos) = 1
    THEN LET a == CHOOSE a \in erase_pos : TRUE
         IN  [j \in 1..Len(msg) |->
                IF j - 1 = a THEN BitXor(msg[j], synd[1]) ELSE msg[j]]
    ELSE IF Cardinality(erase_pos) = 2
    THEN LET a == CHOOSE a \in erase_pos : \A b \in erase_pos : a <= b
             b == CHOOSE b \in erase_pos : b # a
             Xa == Locator(Len(msg), a)
             Xb == Locator(Len(msg), b)
             ea == gf_div(BitXor(synd[2], gf_mul(synd[1], Xb)), BitXor(Xa, Xb))
             eb == BitXor(synd[1], ea)
         IN  [j \in 1..Len(msg) |->
                IF j - 1 = a THEN BitXor(msg[j], ea)
                ELSE IF j - 1 = b THEN BitXor(msg[j], eb)
                ELSE msg[j]]
    ELSE msg

\* codec.decode(word, erase_pos = erasures)[0]: the message symbols of the
\* corrected word, or ReedSolomonError
rs_correct_msg(msg_in, erase_pos) ==
    LET msg_out == [j \in 1..Len(msg_in) |-> IF j - 1 \in erase_pos THEN 0 ELSE msg_in[j]]
        synd == rs_calc_syndromes(msg_out)
        corrected == rs_correct_errata(msg_out, synd, erase_pos)
        message(word) == SubSeq(word, 1, Len(word) - erasure_parity_shards)
    IN  IF Cardinality(erase_pos) > erasure_parity_shards
        THEN Raised("ReedSolomonError")
        ELSE IF \A i \in DOMAIN synd : synd[i] = 0
        THEN Returned(message(msg_out))
        ELSE IF \E i \in DOMAIN synd : rs_calc_syndromes(corrected)[i] # 0
        THEN Raised("ReedSolomonError")
        ELSE Returned(message(corrected))

\* b''.join(parts)
RECURSIVE Join(_)
Join(parts) == IF parts = <<>> THEN <<>> ELSE Head(parts) \o Join(Tail(parts))

encode_chunk(chunk_data) ==
    IF chunk_data = <<>>
    THEN Raised("Chunk data cannot be empty")
    ELSE LET chunk_size == Len(chunk_data)
             fragment_size == (chunk_size + erasure_data_shards - 1) \div erasure_data_shards
             padded_size == fragment_size * erasure_data_shards
             padded == chunk_data \o [j \in 1..(padded_size - chunk_size) |-> 0]
             data_fragments ==
                 [i \in 1..erasure_data_shards |->
                    SubSeq(padded, (i - 1) * fragment_size + 1, i * fragment_size)]
             data_bytes(byte_pos) ==
                 [i \in 1..erasure_data_shards |-> data_fragments[i][byte_pos]]
             parity_fragment(parity_idx) ==
                 [byte_pos \in 1..fragment_size |->
                    rs_encode_msg(data_bytes(byte_pos))[erasure_data_shards + parity_idx]]
         IN  Returned(data_fragments \o
                      [parity_idx \in 1..erasure_parity_shards |-> parity_fragment(parity_idx)])

\* the fragments keyed by their place in the list, whatever their index
ZipMapByPlace(fragment_indices, available_fragments) ==
    [idx \in 0..(Len(available_fragments) - 1) |-> available_fragments[idx + 1][1]]

\* dict(zip(fragment_indices, available_fragments)): a later pair wins
ZipMap(fragment_indices, available_fragments) ==
    LET n == Min(Len(fragment_indices), Len(available_fragments))
        last(idx) == CHOOSE k \in 1..n :
                        /\ fragment_indices[k] = idx
                        /\ \A m \in 1..n : fragment_indices[m] = idx => m <= k
    IN  [idx \in {fragment_indices[k] : k \in 1..n} |-> available_fragments[last(idx)][1]]

\* the threshold one too low
TooFewOffByOne(count) == count < erasure_data_shards - 1

\* len(available_fragments) < self.data_shards
TooFew(count) == count < erasure_data_shards

\* fragments is a list of Optional[bytes]; fragment_indices a list of ints
decode_fragments(fragment_list, fragment_indices) ==
    LET available_fragments == SelectSeq(fragment_list, LAMBDA f : f # None)
        fragment_size == Len(available_fragments[1][1])
        fragment_map == ZipMap(fragment_indices, available_fragments)
        erasures == (0..(erasure_total_shards - 1)) \ DOMAIN fragment_map
        available_bytes(byte_pos) ==
            [j \in 1..erasure_total_shards |->
               IF j - 1 \in DOMAIN fragment_map THEN fragment_map[j - 1][byte_pos] ELSE 0]
        decoded_bytes(byte_pos) == rs_correct_msg(available_bytes(byte_pos), erasures)
        missing == {i \in 0..(erasure_data_shards - 1) : i \notin DOMAIN fragment_map}
        reconstructed_data_fragments ==
            [i \in 1..erasure_data_shards |->
               IF i - 1 \in DOMAIN fragment_map
               THEN fragment_map[i - 1]
               ELSE [byte_pos \in 1..fragment_size |-> decoded_bytes(byte_pos).value[i]]]
    IN  IF TooFew(Len(available_fragments))
        THEN Raised("Insufficient fragments")
        ELSE IF missing = {}
        THEN Returned(Join([i \in 1..erasure_data_shards |-> fragment_map[i - 1]]))
        ELSE IF \E byte_pos \in 1..fragment_size : ~decoded_bytes(byte_pos).ok
        THEN Raised("Failed to reconstruct fragment")
        ELSE Returned(Join(reconstructed_data_fragments))

\* list.sort(key = index) of (index, data) pairs; the sort is stable
SortByIndex(pairs) ==
    LET rank(k) == 1 + Cardinality({m \in 1..Len(pairs) :
                         \/ pairs[m][1] < pairs[k][1]
                         \/ pairs[m][1] = pairs[k][1] /\ m < k})
    IN  [r \in 1..Len(pairs) |-> pairs[CHOOSE k \in 1..Len(pairs) : rank(k) = r]]

\* FragmentManager.reconstruct_chunk over a list of (fragment_index, data)
reconstruct_chunk(pairs) ==
    IF Len(pairs) < erasure_data_shards
    THEN Raised("Need at least K fragments")
    ELSE LET sorted == SortByIndex(pairs)
             max_index == sorted[Len(sorted)][1]
             fragment_list ==
                 [j \in 1..(max_index + 1) |->
                    IF \E k \in 1..Len(sorted) : sorted[k][1] = j - 1
                    THEN Some(sorted[CHOOSE k \in 1..Len(sorted) : sorted[k][1] = j - 1][2])
                    ELSE None]
             indices == [k \in 1..Len(sorted) |-> sorted[k][1]]
         IN  decode_fragments(fragment_list, indices)

\* the chunks the caller may encode: every byte string up to the bound
Chunks == UNION {BytesOfLen(n) : n \in 0..MaxChunkLen}

\* a set of fragment indices as a list, ascending or descending
IndexOrder(indexes, ascending) ==
    [k \in 1..Cardinality(indexes) |->
       CHOOSE i \in indexes :
          Cardinality({j \in indexes : IF ascending THEN j < i ELSE j > i}) = k - 1]

\* a chunk to encode and the fragments that will survive
CodecInit ==
    /\ original \in Chunks
    /\ held \in SUBSET (0..(erasure_total_shards - 1))
    /\ encoded = None
    /\ decoded = None
    /\ entry = "none"

\* no codec call in progress
CodecIdle ==
    /\ original = <<>>
    /\ held = {}
    /\ encoded = None
    /\ decoded = None
    /\ entry = "none"

\* fragments = coder.encode_chunk(chunk)
EncodeChunk ==
    /\ encoded = None
    /\ encoded' = Some(encode_chunk(original))
    /\ UNCHANGED <<original, held, decoded, entry>>
    /\ UNCHANGED exceptCodec

\* coder.decode_fragments(fragments, indices) with the held fragments, either
\* only those (as the tests call it) or with None in the missing slots
DecodeFragments ==
    /\ encoded # None /\ encoded[1].ok
    /\ decoded = None
    /\ \E sparse \in BOOLEAN :
          LET indices == IndexOrder(held, TRUE)
              fragment_list ==
                  IF sparse
                  THEN [j \in 1..erasure_total_shards |->
                          IF j - 1 \in held THEN Some(encoded[1].value[j]) ELSE None]
                  ELSE [k \in 1..Len(indices) |-> Some(encoded[1].value[indices[k] + 1])]
          IN  decoded' = Some(decode_fragments(fragment_list, indices))
    /\ entry' = "decode_fragments"
    /\ UNCHANGED <<original, held, encoded>>
    /\ UNCHANGED exceptCodec

\* manager.reconstruct_chunk(pairs) with the held fragments in either order
ReconstructChunk ==
    /\ encoded # None /\ encoded[1].ok
    /\ decoded = None
    /\ \E ascending \in BOOLEAN :
          LET indices == IndexOrder(held, ascending)
              pairs == [k \in 1..Len(indices) |->
                          <<indices[k], encoded[1].value[indices[k] + 1]>>]
          IN  decoded' = Some(reconstruct_chunk(pairs))
    /\ entry' = "reconstruct_chunk"
    /\ UNCHANGED <<original, held, encoded>>
    /\ UNCHANGED exceptCodec

(***************************************************************************)
(* Specifications.                                                         *)
(***************************************************************************)
vars == <<bufVars, schedVars, ballotVars, paxosVars, codecVars, selVars, redVars, monVars, upVars, healthVars, dlVars, playVars>>

\* ---- the playback buffer under any interleaving of its operations
AddChunk ==
    /\ \E sequence_num \in SeqNums, chunk_data \in Payloads, spill_ok \in BOOLEAN :
          add_chunk(sequence_num, chunk_data, spill_ok)
    /\ UNCHANGED exceptBuf

Take == get_next_chunk_for_playback /\ UNCHANGED exceptBuf

Reset == reset /\ UNCHANGED exceptBuf

WaitForBuffer == wait_for_buffer /\ UNCHANGED exceptBuf

BufferNext == AddChunk \/ Take \/ Reset \/ WaitForBuffer

InitBuffer == BufferInit /\ SchedIdle /\ BallotFresh /\ PaxosInit /\ CodecIdle /\ SelectIdle /\ RedundancyInit /\ MonitorIdle /\ UploaderIdle /\ HealthIdle /\ DownloadIdle /\ PlaybackIdle

SpecBuffer == InitBuffer /\ [][BufferNext]_vars

\* ---- the scheduler under concurrent download calls
Download ==
    /\ \E c \in Calls, chunks_to_download \in DownloadLists :
          download_chunks_parallel(c, chunks_to_download)
    /\ UNCHANGED exceptSched

WorkerStep ==
    /\ \E w \in Workers :
          \/ WorkerGet(w)
          \/ Acquire(w)
          \/ Retry(w)
          \/ \E ok \in BOOLEAN : Response(w, ok)
    /\ UNCHANGED exceptSched

SchedNext == Download \/ WorkerStep

InitSched == BufferInit /\ SchedInit /\ BallotFresh /\ PaxosInit /\ CodecIdle /\ SelectIdle /\ RedundancyInit /\ MonitorIdle /\ UploaderIdle /\ HealthIdle /\ DownloadIdle /\ PlaybackIdle

SpecSched == InitSched /\ [][SchedNext]_vars

\* ---- the scheduler when the event loop runs every task that can run:
\* every request ends, every backoff sleep ends, and the semaphore wakes its
\* waiters in turn
WorkerRuns(w) ==
    /\ WorkerGet(w) \/ Retry(w) \/ \E ok \in BOOLEAN : Response(w, ok)
    /\ UNCHANGED exceptSched

WorkerAcquires(w) ==
    /\ Acquire(w)
    /\ UNCHANGED exceptSched

SpecSchedFair ==
    /\ InitSched
    /\ [][SchedNext]_vars
    /\ \A w \in Workers : WF_vars(WorkerRuns(w)) /\ SF_vars(WorkerAcquires(w))

\* ---- the ballot generator under any sequence of clock readings
GenerateBallot ==
    /\ Len(issued) < MaxIssued
    /\ \E timestamp \in 0..MaxClock : generate_ballot_number(timestamp)
    /\ UNCHANGED exceptBallot

BallotNext == GenerateBallot

InitBallot == BufferInit /\ SchedIdle /\ BallotInit /\ PaxosInit /\ CodecIdle /\ SelectIdle /\ RedundancyInit /\ MonitorIdle /\ UploaderIdle /\ HealthIdle /\ DownloadIdle /\ PlaybackIdle

SpecBallot == InitBallot /\ [][BallotNext]_vars

\* ---- the coordinator: commit requests one after another (SpecPaxos) and
\* overlapping (SpecPaxosConcurrent)
\* the clock reading (ms) of the coordinator specifications: ballots taken
\* in one millisecond differ by the counter alone
PaxosClock == {1}

\* the proposer that takes the next request: the first one that is free
FreeProposer(p) ==
    /\ proc[p].pc = "idle"
    /\ \A q \in Proposers : q < p => proc[q].pc # "idle"

ProposeStep ==
    /\ \A q \in Proposers : proc[q].pc = "idle"
    /\ \E p \in Proposers, request \in CommitRequests, timestamp \in PaxosClock :
          FreeProposer(p) /\ Propose(p, request, timestamp)
    /\ UNCHANGED exceptPaxos

ProposeConcurrentStep ==
    /\ \E p \in Proposers, request \in ConcurrentRequests, timestamp \in PaxosClock :
          FreeProposer(p) /\ Propose(p, request, timestamp)
    /\ UNCHANGED exceptPaxos

PrepareResponses ==
    /\ \E p \in Proposers :
          /\ proc[p].pc = "prepare_wait"
          /\ \E answers \in [proc[p].request[1].node_urls ->
                                 PrepareAnswers(proc[p].ballot_number)] :
                prepare_responses(p, answers)
    /\ UNCHANGED exceptPaxos

NextAttemptStep ==
    /\ \E p \in Proposers, timestamp \in PaxosClock : NextAttempt(p, timestamp)
    /\ UNCHANGED exceptPaxos

AcceptResponses ==
    /\ \E p \in Proposers :
          /\ proc[p].pc = "accept_wait"
          /\ \E answers \in [proc[p].responses -> AcceptAnswers] :
                accept_responses(p, answers)
    /\ UNCHANGED exceptPaxos

CommitRows == (\E p \in Proposers : commit_rows(p)) /\ UNCHANGED exceptPaxos

CommitTotal == (\E p \in Proposers : commit_total(p)) /\ UNCHANGED exceptPaxos

CommitTx == (\E p \in Proposers : commit_tx(p)) /\ UNCHANGED exceptPaxos

CommitState == (\E p \in Proposers : commit_state(p)) /\ UNCHANGED exceptPaxos

CommitFault == (\E p \in Proposers : commit_fault(p)) /\ UNCHANGED exceptPaxos

PhaseSteps ==
    \/ PrepareResponses
    \/ AcceptResponses
    \/ CommitRows
    \/ CommitTotal
    \/ CommitTx
    \/ CommitState
    \/ CommitFault

PaxosSteps == NextAttemptStep \/ PhaseSteps

PaxosNext == ProposeStep \/ PaxosSteps

InitPaxos == BufferInit /\ SchedIdle /\ BallotFresh /\ PaxosInit /\ CodecIdle /\ SelectIdle /\ RedundancyInit /\ MonitorIdle /\ UploaderIdle /\ HealthIdle /\ DownloadIdle /\ PlaybackIdle

SpecPaxos == InitPaxos /\ [][PaxosNext]_vars

PaxosConcurrentNext == ProposeConcurrentStep \/ PaxosSteps

InitPaxosConcurrent == BufferInit /\ SchedIdle /\ BallotFresh /\ PaxosInit /\ CodecIdle /\ SelectIdle /\ RedundancyInit /\ MonitorIdle /\ UploaderIdle /\ HealthIdle /\ DownloadIdle /\ PlaybackIdle

SpecPaxosConcurrent == InitPaxosConcurrent /\ [][PaxosConcurrentNext]_vars

\* ---- the coordinator under any sequence of wall-clock readings: one
\* request at a time, datetime.now() reading any of 0..MaxClock
ClockRequests == {ChunkCommitRequest("c2", {"s1"}, "v1", 1, "replication", None)}

ProposeClockStep ==
    /\ \A q \in Proposers : proc[q].pc = "idle"
    /\ \E p \in Proposers, request \in ClockRequests, timestamp \in 0..MaxClock :
          FreeProposer(p) /\ Propose(p, request, timestamp)
    /\ UNCHANGED exceptPaxos

NextAttemptClockStep ==
    /\ \E p \in Proposers, timestamp \in 0..MaxClock : NextAttempt(p, timestamp)
    /\ UNCHANGED exceptPaxos

PaxosClockNext == ProposeClockStep \/ NextAttemptClockStep \/ PhaseSteps

InitPaxosClock == BufferInit /\ SchedIdle /\ BallotFresh /\ PaxosInit /\ CodecIdle /\ SelectIdle /\ RedundancyInit /\ MonitorIdle /\ UploaderIdle /\ HealthIdle /\ DownloadIdle /\ PlaybackIdle

SpecPaxosClock == InitPaxosClock /\ [][PaxosClockNext]_vars

\* ---- the erasure codec: encode a chunk, lose fragments, decode
CodecNext == EncodeChunk \/ DecodeFragments \/ ReconstructChunk

InitCodec == BufferInit /\ SchedIdle /\ BallotFresh /\ PaxosInit /\ CodecInit /\ SelectIdle /\ RedundancyInit /\ MonitorIdle /\ UploaderIdle /\ HealthIdle /\ DownloadIdle /\ PlaybackIdle

SpecCodec == InitCodec /\ [][CodecNext]_vars

\* ---- select_best_node applied to every reading
SelectBestStep == SelectBest /\ UNCHANGED exceptSel

SelectNoneStep == SelectNone /\ UNCHANGED exceptSel

SelectNext == SelectBestStep \/ SelectNoneStep

InitSelect == BufferInit /\ SelectInit /\ BallotFresh /\ PaxosInit /\ CodecIdle /\ RedundancyInit /\ MonitorIdle /\ UploaderIdle /\ HealthIdle /\ DownloadIdle /\ PlaybackIdle

SpecSelect == InitSelect /\ [][SelectNext]_vars

\* ---- the redundancy policy under any sequence of calls
Determine ==
    /\ \E video_id \in VideoIds, view_count \in ViewCounts,
          manual_override \in {None} \cup {Some(mode) : mode \in RedundancyModes} :
          determine_redundancy_mode(video_id, view_count, manual_override)
    /\ UNCHANGED exceptRed

SetOverride ==
    /\ \E video_id \in VideoIds, mode \in RedundancyModes :
          set_manual_override(video_id, mode)
    /\ UNCHANGED exceptRed

ClearOverride ==
    /\ \E video_id \in VideoIds : clear_manual_override(video_id)
    /\ UNCHANGED exceptRed

RedundancyNext == Determine \/ SetOverride \/ ClearOverride

InitRedundancy == BufferInit /\ SchedIdle /\ BallotFresh /\ PaxosInit /\ CodecIdle /\ SelectIdle /\ RedundancyInit /\ MonitorIdle /\ UploaderIdle /\ HealthIdle /\ DownloadIdle /\ PlaybackIdle

SpecRedundancy == InitRedundancy /\ [][RedundancyNext]_vars

\* ---- the network monitor between start and stop, probes and bandwidth
\* ---- reports in any order
StartMonitoring ==
    /\ \E urls \in NodeLists : start_monitoring(urls)
    /\ UNCHANGED exceptMon

StopMonitoring ==
    /\ stop_monitoring
    /\ UNCHANGED exceptMon

Ping ==
    /\ \E n \in MonNodes, answer \in PingAnswers, latency \in LatencyVals :
          PingNode(n, answer, latency)
    /\ UNCHANGED exceptMon

UpdateBandwidth ==
    /\ \E n \in MonNodes, b \in BandwidthVals : update_bandwidth(n, b)
    /\ UNCHANGED exceptMon

Tick ==
    /\ \E d \in TickSecs : MonTick(d)
    /\ UNCHANGED exceptMon

MonitorNext == StartMonitoring \/ StopMonitoring \/ Ping \/ UpdateBandwidth \/ Tick

InitMonitor == BufferInit /\ SchedIdle /\ BallotFresh /\ PaxosInit /\ CodecIdle /\ SelectIdle /\ RedundancyInit /\ MonitorInit /\ UploaderIdle /\ HealthIdle /\ DownloadIdle /\ PlaybackIdle

SpecMonitor == InitMonitor /\ [][MonitorNext]_vars

\* ---- one upload_chunks call with any set of healthy nodes and any
\* ---- outcome of each PUT and commit
UploadChunks ==
    /\ \E ns \in SUBSET UpNodes : upload_chunks(ns)
    /\ UNCHANGED exceptUp

SelectTargets ==
    /\ \E c \in UpChunks, t \in SUBSET UpNodes : select_targets(c, t)
    /\ UNCHANGED exceptUp

UploadAttempt ==
    /\ \E c \in UpChunks, s \in SUBSET UpNodes, commit_ok \in BOOLEAN :
          upload_attempt(c, s, commit_ok)
    /\ UNCHANGED exceptUp

UploadFinish ==
    /\ upload_finish
    /\ UNCHANGED exceptUp

UploaderNext == UploadChunks \/ SelectTargets \/ UploadAttempt \/ UploadFinish

InitUploader == BufferInit /\ SchedIdle /\ BallotFresh /\ PaxosInit /\ CodecIdle /\ SelectIdle /\ RedundancyInit /\ MonitorIdle /\ UploaderInit /\ HealthIdle /\ DownloadIdle /\ PlaybackIdle

SpecUploader == InitUploader /\ [][UploaderNext]_vars

\* ---- registrations, heartbeats, monitor passes and probes as time passes
RegisterNode ==
    /\ \E n \in HealthNodes : register_storage_node(n)
    /\ UNCHANGED exceptHealth

Heartbeat ==
    /\ \E n \in HealthNodes : update_node_heartbeat(n)
    /\ UNCHANGED exceptHealth

MarkUnhealthy ==
    /\ _mark_unhealthy_nodes
    /\ UNCHANGED exceptHealth

ProbeNode ==
    /\ \E n \in HealthNodes, responds \in BOOLEAN : _probe_single_node(n, responds)
    /\ UNCHANGED exceptHealth

TimePasses ==
    /\ HealthTime
    /\ UNCHANGED exceptHealth

HealthNext == RegisterNode \/ Heartbeat \/ MarkUnhealthy \/ ProbeNode \/ TimePasses

InitHealth == BufferInit /\ SchedIdle /\ BallotFresh /\ PaxosInit /\ CodecIdle /\ SelectIdle /\ RedundancyInit /\ MonitorIdle /\ UploaderIdle /\ HealthInit /\ DownloadIdle /\ PlaybackIdle

SpecHealth == InitHealth /\ [][HealthNext]_vars

\* ---- the download loop and the consumer of one stream
DownloadPlan ==
    /\ download_plan
    /\ UNCHANGED bufVars
    /\ UNCHANGED exceptDownload

DownloadReturned ==
    /\ \E got \in SUBSET SeqNums : download_returned(got)
    /\ UNCHANGED bufVars
    /\ UNCHANGED exceptDownload

DownloadDeliver ==
    /\ \E spill_ok \in BOOLEAN : download_deliver(spill_ok)
    /\ UNCHANGED exceptDownload

DownloadWait ==
    /\ download_wait
    /\ UNCHANGED exceptDownload

ConsumerTake ==
    /\ consumer_take
    /\ UNCHANGED exceptDownload

DownloadNext ==
    DownloadPlan \/ DownloadReturned \/ DownloadDeliver \/ DownloadWait \/ ConsumerTake

InitDownload == BufferInit /\ SchedIdle /\ BallotFresh /\ PaxosInit /\ CodecIdle /\ SelectIdle /\ RedundancyInit /\ MonitorIdle /\ UploaderIdle /\ HealthIdle /\ DownloadInit /\ PlaybackIdle

SpecDownload == InitDownload /\ [][DownloadNext]_vars

\* the loop runs as long as the client plays: each of its steps is taken
\* once it can be
SpecDownloadFair ==
    /\ InitDownload
    /\ [][DownloadNext]_vars
    /\ WF_vars(DownloadPlan)
    /\ WF_vars(DownloadReturned)
    /\ WF_vars(DownloadDeliver)
    /\ WF_vars(DownloadWait)

\* ---- the fail-over of single chunks, replica lists with repeated nodes
\* ---- included, when the event loop runs every task that can run
DownloadOne ==
    /\ \E c \in Calls, chunks_to_download \in FailoverLists :
          download_chunks_parallel(c, chunks_to_download)
    /\ UNCHANGED exceptSched

FailoverNext == DownloadOne \/ WorkerStep

SpecFailover ==
    /\ InitSched
    /\ [][FailoverNext]_vars
    /\ \A w \in Workers : WF_vars(WorkerRuns(w)) /\ SF_vars(WorkerAcquires(w))

\* ---- a video played from its first chunk to its last: the download loop
\* ---- and the playback loop, each step taken once it can be
exceptPlayback == <<schedVars, ballotVars, paxosVars, codecVars, selVars, redVars, monVars, upVars, healthVars>>

PlayDownloadPlan ==
    /\ playing
    /\ download_plan
    /\ UNCHANGED <<bufVars, playVars, exceptPlayback>>

PlayDownloadExit ==
    /\ download_loop_exit
    /\ UNCHANGED <<bufVars, playVars, exceptPlayback>>

PlayDownloadReturned ==
    /\ \E got \in SUBSET SeqNums : download_returned_once(got)
    /\ UNCHANGED <<bufVars, exceptPlayback>>

PlayDownloadDeliver ==
    /\ download_deliver(TRUE)
    /\ UNCHANGED <<playVars, exceptPlayback>>

PlayDownloadWait ==
    /\ download_wait
    /\ UNCHANGED <<playVars, exceptPlayback>>

PlaybackHead ==
    /\ download_pc # "delivering"
    /\ playback_head
    /\ UNCHANGED <<dlVars, exceptPlayback>>

PlaybackReady ==
    /\ download_pc # "delivering"
    /\ playback_ready
    /\ UNCHANGED <<dlVars, exceptPlayback>>

PlaybackSlept ==
    /\ download_pc # "delivering"
    /\ playback_slept
    /\ UNCHANGED <<bufVars, dlVars, exceptPlayback>>

PlaybackUnderrun ==
    /\ download_pc # "delivering"
    /\ playback_underrun
    /\ UNCHANGED <<dlVars, exceptPlayback>>

PlaybackNext ==
    \/ PlayDownloadPlan \/ PlayDownloadExit \/ PlayDownloadReturned
    \/ PlayDownloadDeliver \/ PlayDownloadWait
    \/ PlaybackHead \/ PlaybackReady \/ PlaybackSlept \/ PlaybackUnderrun

InitPlayback == BufferInit /\ SchedIdle /\ BallotFresh /\ PaxosInit /\ CodecIdle /\ SelectIdle /\ RedundancyInit /\ MonitorIdle /\ UploaderIdle /\ HealthIdle /\ DownloadInit /\ PlaybackInit

SpecPlayback ==
    /\ InitPlayback
    /\ [][PlaybackNext]_vars
    /\ WF_vars(PlayDownloadPlan) /\ WF_vars(PlayDownloadExit)
    /\ WF_vars(PlayDownloadReturned) /\ WF_vars(PlayDownloadDeliver)
    /\ WF_vars(PlayDownloadWait)
    /\ WF_vars(PlaybackHead) /\ WF_vars(PlaybackReady)
    /\ WF_vars(PlaybackSlept) /\ WF_vars(PlaybackUnderrun)

(***************************************************************************)
(* Claims.                                                                 *)
(***************************************************************************)

\* C1: across any interleaving of add, take and reset, the k-th successful
\* take since construction or reset returns sequence number k-1 (ascending,
\* no gaps, no duplicates), and current_position equals the number of chunks
\* delivered.
C1_InOrderDelivery ==
    /\ \A k \in 1..Len(delivered) : delivered[k] = k - 1
    /\ current_position = Len(delivered)
    /\ total_chunks_played = Len(delivered)

\* three chunks were delivered, the last by the latest take, while a later
\* chunk is already buffered
C1_Witness ==
    /\ Len(delivered) = 3
    /\ last_take # None
    /\ buffer # <<>>

\* C2: at every instant the number of chunks inside the per-chunk download
\* algorithm, and so the number of outstanding requests, is at most
\* max_concurrent_downloads, over all concurrent download calls; a chunk holds
\* its permit from entering the algorithm until it succeeds or finally
\* fails, also while it sleeps in a retry backoff.
C2_BoundedConcurrency ==
    LET inside == {w \in Workers : worker[w].pc \in {"request", "backoff"}}
        outstanding == {w \in Workers : worker[w].pc = "request"}
    IN  /\ Cardinality(inside) <= max_concurrent_downloads
        /\ Cardinality(outstanding) <= max_concurrent_downloads
        /\ download_semaphore = max_concurrent_downloads - Cardinality(inside)

\* every permit is taken, one holder sleeps in a retry backoff, and a worker
\* of another call waits on the semaphore
C2_Witness ==
    /\ download_semaphore = 0
    /\ \E w1, w2 \in Workers :
          /\ w1[1] # w2[1]
          /\ worker[w1].pc = "backoff"
          /\ worker[w2].pc = "acquire"

\* C3: in every coordinator state a chunk is listed in the manifest of a
\* video if and only if its persisted consensus phase is COMMITTED.
C3_ManifestIffCommitted ==
    \A c \in ChunkIds :
        (\E v \in VideoIds : c \in ManifestChunks(db, v)) <=> Phase(db, c) = "committed"

\* C4: a chunk whose last successful commit was in replication mode keeps at
\* least quorum_size active replica rows, whatever proposals follow.
C4_QuorumOfReplicas ==
    \A c \in ChunkIds :
        committed_quorum[c] > 0 =>
            Cardinality(ActiveReplicas(db, c)) >= committed_quorum[c]

\* C5: a chunk row in erasure_coding mode whose consensus phase is COMMITTED
\* has exactly the fragment indices 0..N-1, N = K + M, whatever
\* fragments_metadata came with the commit request.
C5_ErasureHasNFragments ==
    \A r \in db.chunks :
        r.redundancy_mode = "erasure_coding" /\ Phase(db, r.chunk_id) = "committed" =>
            FragmentIndices(db, r.chunk_id) = 0..(erasure_total_shards - 1)

\* total_chunks of every video equals the number of its COMMITTED chunks
TotalChunksMatch(st) ==
    \A v \in VideoIds :
        st.videos[v] = Cardinality({c \in ManifestChunks(st, v) : Phase(st, c) = "committed"})

\* C6: when a proposal returns success, total_chunks of every video equals
\* the number of chunks of that video whose phase is COMMITTED.
C6_TotalChunksAfterCommit ==
    [][(\E p \in Proposers : proc[p].pc = "commit_state" /\ proc'[p].pc = "idle")
          => TotalChunksMatch(db')]_vars

\* every chunk row comes with replica or fragment rows and with the
\* total_chunks of its video counting the rows of that video
CommitIsWhole(st) ==
    \A r \in st.chunks :
        /\ ActiveReplicas(st, r.chunk_id) # {} \/ FragmentIndices(st, r.chunk_id) # {}
        /\ st.videos[r.video_id] = Cardinality(ManifestChunks(st, r.video_id))

\* C7: neither a read on the connection nor the durable database ever shows
\* a chunk row without its replica or fragment rows and the matching
\* total_chunks, also while proposals for other chunks run.
C7_AtomicCommit == CommitIsWhole(db) /\ CommitIsWhole(durable)

\* C9: an attempt in whose Prepare a node reported a higher ballot never
\* enters the Accept phase.
C9_ConflictAbortsAttempt ==
    \A p \in Proposers : proc[p].pc = "accept_wait" => ~proc[p].conflict

PhaseRank(phase) ==
    CASE phase = "none" -> 0
      [] phase = "prepare" -> 1
      [] phase = "accept" -> 2
      [] phase = "committed" -> 3

\* the step is the cleanup of a failed proposal for chunk c
CleanupOf(c) ==
    \E p \in Proposers :
        /\ proc[p].pc \notin {"idle", "commit_state"}
        /\ proc'[p].pc = "idle"
        /\ proc[p].request[1].chunk_id = c

\* C10: the persisted phase of a chunk changes only forward in the order
\* NONE, PREPARE, ACCEPT, COMMITTED, except for the reset to NONE by the
\* cleanup of a failed proposal.
C10_PhaseMovesForward ==
    [][\A c \in ChunkIds :
          Phase(db', c) # Phase(db, c) =>
              \/ PhaseRank(Phase(db', c)) > PhaseRank(Phase(db, c))
              \/ Phase(db', c) = "none" /\ CleanupOf(c)]_vars

\* the step is the return of (False, []) by proposer p
ReturnsFailure(p) ==
    /\ proc[p].pc \notin {"idle", "commit_state"}
    /\ proc'[p].pc = "idle"

\* C11: a proposal makes at most max_retries attempts, every retry takes a
\* ballot strictly greater than the ballot of the attempt before, and when
\* the proposal returns failure the phase of its chunk is NONE and no
\* replica row of the chunk carries the failed ballot.
C11_AttemptsAndCleanup ==
    [][\A p \in Proposers :
          /\ proc'[p].attempt < max_retries
          /\ proc[p].pc = "backoff" /\ proc'[p].pc = "prepare_wait" =>
                proc'[p].ballot_number > proc[p].ballot_number
          /\ ReturnsFailure(p) =>
                /\ Phase(db', proc[p].request[1].chunk_id) = "none"
                /\ \A r \in ActiveReplicas(db', proc[p].request[1].chunk_id) :
                      r.ballot_number # proc[p].ballot_number]_vars

\* a majority of the proposed nodes: at least floor(n/2)+1 of them
Majority(nodes, replicas) ==
    nodes \subseteq replicas /\ 2 * Cardinality(nodes) > Cardinality(replicas)

\* proposer p is past Accept, in the commit phase of its attempt
InCommitPhase(p) == proc[p].pc \in CommitSteps \cup {"commit_state"}

\* the nodes on the replica rows of p's chunk that carry p's ballot
RowsOfBallot(st, p) ==
    {r.node_url : r \in {x \in ActiveReplicas(st, proc[p].request[1].chunk_id) :
                            x.ballot_number = proc[p].ballot_number}}

\* success needs a quorum in Prepare and a quorum of those in Accept within
\* one attempt, and the committed nodes are the nodes that passed both
QuorumInOneAttempt(p) ==
    /\ proc[p].pc = "accept_wait" => Majority(proc[p].responses, proc[p].request[1].node_urls)
    /\ InCommitPhase(p) => Majority(proc[p].responses, proc[p].request[1].node_urls)
    /\ proc[p].pc = "accept_wait" /\ proc'[p].pc = "commit_rows" =>
          /\ proc'[p].responses \subseteq proc[p].responses
          /\ proc'[p].attempt = proc[p].attempt
          /\ proc'[p].ballot_number = proc[p].ballot_number
    /\ InCommitPhase(p) /\ proc'[p].pc # "idle" =>
          /\ proc'[p].responses = proc[p].responses
          /\ proc'[p].ballot_number = proc[p].ballot_number
    /\ proc[p].pc = "commit_state" /\ proc[p].request[1].redundancy_mode = "replication" =>
          RowsOfBallot(db, p) = proc[p].responses
    /\ proc[p].pc # "idle" /\ proc'[p].pc = "idle" /\ ~ReturnsFailure(p) => InCommitPhase(p)

\* C12 (amended): a proposal returns success only if, within one attempt, a
\* majority of its nodes answered ok in Prepare and a majority of the
\* proposed nodes, all among those, confirmed in Accept; the replica rows
\* committed under its ballot are exactly the nodes that passed both phases.
C12_QuorumInOneAttempt == [][\A p \in Proposers : QuorumInOneAttempt(p)]_vars

\* a proposal on three nodes is about to return success from its second
\* attempt with exactly two nodes committed
C12_Witness ==
    \E p \in Proposers :
        /\ proc[p].pc = "commit_state"
        /\ proc[p].attempt = 1
        /\ Cardinality(proc[p].request[1].node_urls) = 3
        /\ Cardinality(proc[p].responses) = 2
        /\ RowsOfBallot(db, p) = proc[p].responses

\* C12: as C12_QuorumInOneAttempt, and a proposal on a single node succeeds
\* if and only if that node passes prepare and accept: once it has passed
\* both, the proposal does not return failure.
C12_SingleNodeSucceedsIff ==
    [][\A p \in Proposers :
          /\ QuorumInOneAttempt(p)
          /\ InCommitPhase(p) /\ Cardinality(proc[p].request[1].node_urls) = 1
                /\ proc'[p].pc = "idle" => ~ReturnsFailure(p)]_vars

\* C13: when the first proposal the coordinator ever ran (so its chunk id
\* was never committed) returns failure, whether from Prepare, Accept or
\* the commit phase, there is no chunk row, no replica row and no fragment
\* row of its chunk, and total_chunks of every video is as before.
C13_FailureLeavesNoRows ==
    [][\A p \in Proposers :
          ReturnsFailure(p) /\ proposals = 1 =>
              LET c == proc[p].request[1].chunk_id
              IN  /\ \A r \in db'.chunks : r.chunk_id # c
                  /\ ActiveReplicas(db', c) = {}
                  /\ FragmentIndices(db', c) = {}
                  /\ db'.videos = EmptyDb.videos]_vars

\* C14: under any interleaving of proposals the ballot stored on a replica
\* row never decreases: no step replaces a replica row by one with a lower
\* ballot.
C14_ReplicaBallotsMonotone ==
    [][\A r \in db.chunk_replicas : \A x \in db'.chunk_replicas :
          ReplicasConflict(r, x) => x.ballot_number >= r.ballot_number]_vars

\* C8: every ballot returned by _generate_ballot_number is strictly greater
\* than every ballot the same instance returned before.
C8_BallotsStrictlyIncrease ==
    \A i, j \in 1..Len(issued) : i < j => issued[i] < issued[j]

\* C15: with K = 3 and M = 2, for every non-empty chunk and every set of at
\* least K of the fragments encode_chunk produced, each passed with its own
\* index, the decode call returns data whose first len(chunk) bytes are the
\* chunk, whether or not the set contains parity fragments.
C15_RoundTrip ==
    (/\ decoded # None
     /\ original # <<>>
     /\ Cardinality(held) >= erasure_data_shards)
    => /\ decoded[1].ok
       /\ SubSeq(decoded[1].value, 1, Len(original)) = original

\* a padded chunk rebuilt from one data fragment and both parity fragments
C15_Witness ==
    /\ decoded # None
    /\ held = {1, 3, 4}
    /\ Len(original) = MaxChunkLen
    /\ \A k \in 1..Len(original) : original[k] # 0
    /\ decoded[1].ok
    /\ SubSeq(decoded[1].value, 1, Len(original)) = original

\* C16: a decode call that is given fewer than K fragments that are really
\* present raises the insufficient-fragments ValueError and returns no data,
\* through decode_fragments as through reconstruct_chunk.
C16_TooFewFragmentsFail ==
    (decoded # None /\ Cardinality(held) < erasure_data_shards)
    => /\ ~decoded[1].ok
       /\ decoded[1].error \in {"Insufficient fragments", "Need at least K fragments"}

\* two fragments, the missing slots passed or not, refused by decode_fragments
C16_Witness ==
    /\ decoded # None
    /\ entry = "decode_fragments"
    /\ Cardinality(held) = erasure_data_shards - 1
    /\ ~decoded[1].ok
    /\ decoded[1].error = "Insufficient fragments"

\* C17: an add_chunk that is rejected, because its sequence number is below
\* current_position or already in the buffer, returns False and changes
\* nothing: not the buffered chunks or their bytes, the memory usage,
\* current_position, the counters, the temp files or either event.
C17_RejectedAddChangesNothing ==
    [][\A sequence_num \in SeqNums, chunk_data \in Payloads, spill_ok \in BOOLEAN :
         (/\ \/ sequence_num < current_position
             \/ \E i \in 1..Len(buffer) : buffer[i].sequence_num = sequence_num
          /\ add_chunk(sequence_num, chunk_data, spill_ok))
         => /\ last_add' = Some(FALSE)
            /\ UNCHANGED <<buffer, current_memory_usage, current_position,
                           playback_started, playback_ready_event, buffer_updated_event,
                           total_chunks_buffered, total_chunks_played,
                           rebuffering_events, temp_files>>]_vars

\* chunk 0 was played, chunk 1 is buffered in memory, and the last add was
\* refused
C17_Witness ==
    /\ last_add = Some(FALSE)
    /\ current_position = 1
    /\ Len(buffer) = 1
    /\ buffer[1].sequence_num = 1
    /\ buffer[1].data # None
    /\ temp_files = << >>

\* the sequence numbers in the buffer, head first
Seqs(buf) == [i \in 1..Len(buf) |-> buf[i].sequence_num]

\* an add_chunk of this sequence number that is accepted
Accepted(sequence_num) ==
    /\ \E chunk_data \in Payloads, spill_ok \in BOOLEAN :
          add_chunk(sequence_num, chunk_data, spill_ok)
    /\ last_add' = Some(TRUE)

\* the steps of scenario S6 on which the code and the scenario agree
S6_Agreed ==
    /\ (Seqs(buffer) = <<0>> /\ delivered = <<>> /\ Accepted(1))
       => can_start_playback(buffer') /\ playback_ready_event'
    /\ (current_position = 2 /\ rebuffering_events = 1
        /\ \E sequence_num \in 2..4 : Accepted(sequence_num))
       => can_start_playback(buffer') /\ playback_ready_event'
    /\ (Seqs(buffer) = <<2, 3, 4>> /\ current_position = 2 /\ get_next_chunk_for_playback)
       => /\ last_take' # None
          /\ last_take'[1].sequence_num = 2
          /\ current_position' = 3

\* the take that hands out chunk 1, the last chunk in the buffer
TakesLastChunk ==
    /\ Seqs(buffer) = <<1>>
    /\ current_position = 1
    /\ rebuffering_events = 0
    /\ playback_ready_event
    /\ get_next_chunk_for_playback

\* C18 (as amended): in scenario S6 (10 s chunks, start level 10 s), adding
\* chunks 0 and 1 makes playback startable; taking chunk 0 and chunk 1
\* empties the buffer but leaves rebuffering_events at 0 and playback-ready
\* set; the next take, on the empty buffer, returns nothing, makes
\* rebuffering_events 1 and clears playback-ready; adding chunks 2, 3, 4
\* makes playback startable and sets playback-ready again; the following
\* take returns chunk 2 and current_position becomes 3.
C18_UnderrunOnEmptyTake ==
    [][/\ S6_Agreed
       /\ TakesLastChunk
          => buffer' = <<>> /\ rebuffering_events' = 0 /\ playback_ready_event'
       /\ (buffer = <<>> /\ current_position = 2 /\ rebuffering_events = 0
           /\ get_next_chunk_for_playback)
          => last_take' = None /\ rebuffering_events' = 1 /\ ~playback_ready_event']_vars

\* the end of scenario S6: chunks 0, 1, 2 played with one underrun between
\* chunk 1 and chunk 2, chunks 3 and 4 buffered
C18_Witness ==
    /\ delivered = <<0, 1, 2>>
    /\ rebuffering_events = 1
    /\ current_position = 3
    /\ Seqs(buffer) = <<3, 4>>
    /\ total_chunks_buffered = 5
    /\ playback_ready_event

\* C18 as stated: the take that returns chunk 1 and empties the buffer
\* itself makes rebuffering_events 1 and clears playback-ready.
C18_UnderrunOnLastChunk ==
    [][/\ S6_Agreed
       /\ TakesLastChunk
          => buffer' = <<>> /\ rebuffering_events' = 1 /\ ~playback_ready_event']_vars

\* the bytes the consumer can get from what the last take returned: the
\* chunk's data, or the content of its temp file while the file exists
ConsumerBytes ==
    IF last_take = None THEN None
    ELSE IF last_take[1].data # None THEN last_take[1].data
    ELSE IF last_take[1].temp_file_path # None
            /\ last_take[1].temp_file_path[1] \in DOMAIN temp_files
    THEN Some(temp_files[last_take[1].temp_file_path[1]])
    ELSE None

\* the bytes add_chunk stored for the chunk at the head of the buffer
HeadBytes ==
    IF Head(buffer).data # None THEN Head(buffer).data[1]
    ELSE temp_files[Head(buffer).temp_file_path[1]]

\* C19: the take that delivers a chunk, spilled to a temp file or not, gives
\* the consumer exactly the bytes add_chunk was given for it; the temp file
\* of a spilled chunk is not deleted before the consumer has those bytes.
C19_DeliveredBytesIntact ==
    [][(buffer # <<>> /\ HeadIsNext(buffer, current_position)
        /\ get_next_chunk_for_playback)
       => ConsumerBytes' = Some(HeadBytes)]_vars

\* the request of worker w fails and the download moves to another node
FailsOver(w) ==
    /\ Response(w, FALSE)
    /\ worker'[w].pc = "request"
    /\ worker'[w].node_url # worker[w].node_url

\* C20: a download whose first-selected node fails all MAX_RETRIES attempts
\* moves to the next-best node only after the last attempt, and that move
\* adds exactly 1 to failover_count; when the second node then serves the
\* chunk the download has counted exactly one failover, failed_downloads
\* has not changed in any of its steps, the chunk's bytes are returned, and
\* chunk_sources[chunk] is the serving node, not the node that failed.
C20_FailoverCountedOnce ==
    [][\A w \in Workers :
         /\ FailsOver(w)
            => /\ worker[w].attempt = MAX_RETRIES - 1
               /\ failover_count' = failover_count + 1
               /\ failed_downloads' = failed_downloads
               /\ worker'[w].node_url[1] \notin worker[w].attempted
         /\ (Retry(w) \/ (Response(w, FALSE) /\ worker'[w].pc = "backoff"))
            => /\ failover_count' = failover_count
               /\ failed_downloads' = failed_downloads
         /\ (Response(w, TRUE) /\ Cardinality(worker[w].attempted) = 2)
            => LET chunk_id == worker[w].chunk_info[1].chunk_id
                   node_url == worker[w].node_url[1]
               IN  /\ worker[w].failovers = 1
                   /\ failover_count' = failover_count
                   /\ failed_downloads' = failed_downloads
                   /\ results'[w[1]][chunk_id] = "bytes"
                   /\ chunk_sources'[chunk_id] = node_url
                   /\ \A failed \in worker[w].attempted \ {node_url} :
                         chunk_sources'[chunk_id] # failed]_vars

\* chunk a was served by n2 after n1, the node selected first, was given up
C20_Witness ==
    /\ "a" \in DOMAIN chunk_sources
    /\ chunk_sources["a"] = "n2"
    /\ healthy = SchedNodes
    /\ failover_count = 1
    /\ failed_downloads = 0
    /\ total_downloads = 1
    /\ \E c \in Calls : "a" \in DOMAIN results[c] /\ results[c]["a"] = "bytes"

\* asyncio.gather(*workers) of call c has returned: every worker task of the
\* call has left its loop
Returned_call(c) ==
    /\ call_state[c] = "running"
    /\ \A w \in Workers : w[1] = c => worker[w].pc \in {"none", "exit"}

\* the chunk ids in the download list of call c
RequestedIds(c) == {requested[c][i].chunk_id : i \in 1..Len(requested[c])}

\* the result map of call c has one entry per requested chunk: bytes from a
\* node of the chunk's replica list, nil for a chunk without replicas
ResultsComplete(c) ==
    /\ DOMAIN results[c] = RequestedIds(c)
    /\ \A i \in 1..Len(requested[c]) :
          LET info == requested[c][i]
              replicas == {info.replicas[k] : k \in 1..Len(info.replicas)}
          IN  /\ results[c][info.chunk_id] \in {"bytes", "nil"}
              /\ results[c][info.chunk_id] = "bytes"
                 => /\ info.chunk_id \in DOMAIN chunk_sources
                    /\ chunk_sources[info.chunk_id] \in replicas
              /\ replicas = {} => results[c][info.chunk_id] = "nil"

\* the number of nil entries in the result maps of the calls in S
RECURSIVE NilEntries(_)
NilEntries(S) ==
    IF S = {} THEN 0
    ELSE LET c == CHOOSE c \in S : TRUE
         IN  Cardinality({id \in DOMAIN results[c] : results[c][id] = "nil"})
             + NilEntries(S \ {c})

\* a step that stores nil for a chunk of call c does so for a chunk with no
\* replicas, or after the last attempt against the last untried replica
NilOnlyWhenExhausted(c) ==
    \A i \in 1..Len(requested'[c]) :
       LET info == requested'[c][i]
           was_set == info.chunk_id \in DOMAIN results[c]
           now_nil == info.chunk_id \in DOMAIN results'[c]
                      /\ results'[c][info.chunk_id] = "nil"
       IN  (~was_set /\ now_nil)
           => \/ info.replicas = <<>>
              \/ \E w \in Workers :
                    /\ w[1] = c
                    /\ worker[w].pc = "request"
                    /\ worker[w].chunk_info = Some(info)
                    /\ worker[w].attempted = {info.replicas[k] : k \in 1..Len(info.replicas)}
                    /\ worker[w].attempt = MAX_RETRIES - 1

\* C21: when every request ends, a download_chunks_parallel call returns, and
\* its result map has an entry for every requested chunk id: bytes when a
\* replica served the chunk, nil when every replica was exhausted or the
\* replica list is empty; no exception reaches the caller, and
\* failed_downloads counts exactly the nil entries.
C21_DownloadReturnsEveryChunk ==
    /\ [](\A c \in Calls : Returned_call(c) => ResultsComplete(c))
    /\ [](failed_downloads = NilEntries(Calls))
    /\ [][\A c \in Calls : NilOnlyWhenExhausted(c)]_vars
    /\ \A c \in Calls : (call_state[c] = "running") ~> Returned_call(c)

\* a call for two chunks returned bytes for one and nil for the other
C21_Witness ==
    \E c \in Calls :
       /\ Returned_call(c)
       /\ Len(requested[c]) = 2
       /\ \E x, y \in DOMAIN results[c] :
             results[c][x] = "bytes" /\ results[c][y] = "nil"

\* the replicas select_best_node chooses among: the healthy ones, or all of
\* them when none is healthy
Pool == IF \E i \in 1..Len(candidates) : candidates[i] \in healthy
        THEN {i \in 1..Len(candidates) : candidates[i] \in healthy}
        ELSE 1..Len(candidates)

\* score(a) / (1 + 0.2 load(a)) >= score(b) / (1 + 0.2 load(b))
AtLeastAdjusted(a, b) ==
    node_score[a] * (5 + node_load[b]) >= node_score[b] * (5 + node_load[a])

\* C22: select_best_node returns, among the healthy nodes of the replica list
\* (among all of the list when none is healthy), a node of the highest
\* load-adjusted score score / (1 + 0.2 load), and of the nodes with that
\* adjusted score the first in the list; with equal scores, load 3 on n1 and
\* load 0 on n2 and n3, the choice from <<n1, n2, n3>> is n2.
C22_BestAdjustedFirstInList ==
    (chosen # None /\ candidates # <<>>)
    => /\ \E i \in Pool :
             /\ chosen[1] = candidates[i]
             /\ \A j \in Pool : AtLeastAdjusted(candidates[i], candidates[j])
             /\ \A j \in Pool :
                   AtLeastAdjusted(candidates[j], candidates[i]) => i <= j
       /\ (/\ candidates = <<"n1", "n2", "n3">>
           /\ healthy = SelectNodes
           /\ \A n \in SelectNodes : node_score[n] = node_score["n1"]
           /\ node_load = [n \in SelectNodes |-> IF n = "n1" THEN 3 ELSE 0])
          => chosen[1] = "n2"

\* the example of the claim: the loaded first node is passed over
C22_Witness ==
    /\ chosen = Some("n2")
    /\ candidates = <<"n1", "n2", "n3">>
    /\ healthy = SelectNodes
    /\ \A n \in SelectNodes : node_score[n] = 10
    /\ node_load = [n \in SelectNodes |-> IF n = "n1" THEN 3 ELSE 0]

\* the mode the view count alone decides
ByViews(view_count) ==
    IF view_count > popularity_threshold THEN "replication" ELSE "erasure_coding"

\* C23: after any sequence of set, clear and determine calls, the mode a
\* determine call returns for a video is the override in force for that
\* video if there is one, and otherwise replication iff views > threshold
\* (views = threshold gives erasure coding); a call for one video leaves the
\* override of every other video as it was; after clear_manual_override the
\* view count alone decides again.
C23_OverrideThenViews ==
    /\ [](last_call # None /\ last_call[1].op = "determine"
          => LET c == last_call[1]
             IN  c.mode = IF c.video_id \in DOMAIN manual_overrides
                          THEN manual_overrides[c.video_id]
                          ELSE ByViews(c.view_count))
    /\ [](last_call # None /\ last_call[1].op = "clear"
          => last_call[1].video_id \notin DOMAIN manual_overrides)
    /\ [](last_call # None /\ last_call[1].op = "set"
          => /\ last_call[1].video_id \in DOMAIN manual_overrides
             /\ manual_overrides[last_call[1].video_id] = last_call[1].mode)
    /\ [][last_call' # last_call
          => \A u \in VideoIds \ {last_call'[1].video_id} :
                /\ (u \in DOMAIN manual_overrides') = (u \in DOMAIN manual_overrides)
                /\ u \in DOMAIN manual_overrides
                   => manual_overrides'[u] = manual_overrides[u]]_vars

\* a video at exactly the threshold, without an override, while the other
\* video is overridden: erasure coding
C23_Witness ==
    /\ last_call # None
    /\ last_call[1].op = "determine"
    /\ last_call[1].video_id = "v1"
    /\ last_call[1].view_count = popularity_threshold
    /\ last_call[1].mode = "erasure_coding"
    /\ DOMAIN manual_overrides = {"v2"}
    /\ manual_overrides["v2"] = "replication"

\* ---- C24
\* n's last call was a probe that recorded a failure (a 0 is the newest entry
\* of the success window)
RecordedFailure(n) ==
    /\ mon_last.op = "ping"
    /\ mon_last.node = n
    /\ success_rates[n] # <<>>
    /\ success_rates[n][Len(success_rates[n])] = 0

\* this step records a successful probe of n
RecordsSuccess(n) ==
    /\ mon_last' # mon_last
    /\ mon_last'.op = "ping"
    /\ mon_last'.node = n
    /\ success_rates'[n][Len(success_rates'[n])] = 1

ScoreBefore == score_of(mon_last.before.lat, mon_last.before.bw, mon_last.before.sr)

\* C24: with the latency and bandwidth windows of a node fixed, a recorded
\* probe failure leaves the node's score at or below its value before the
\* failure, whatever the success window held (a full window, whose oldest
\* entry is evicted, included), and no step other than a recorded success
\* raises the score.
C24_FailureNeverRaisesScore ==
    /\ [](\A n \in MonNodes :
            RecordedFailure(n) => ScoreLeq(get_node_score(n), ScoreBefore))
    /\ [][\A n \in MonNodes :
            (/\ latencies'[n] = latencies[n]
             /\ bandwidths'[n] = bandwidths[n]
             /\ ~RecordsSuccess(n))
            => ScoreLeq(get_node_score(n)', get_node_score(n))]_vars

\* a failure recorded into a full success window lowered a positive score
C24_Witness ==
    \E n \in MonNodes :
        /\ RecordedFailure(n)
        /\ Len(mon_last.before.sr) = success_maxlen
        /\ mon_last.before.lat # <<>>
        /\ ~ScoreLeq(ScoreBefore, get_node_score(n))

\* ---- C25
MonitorCleared ==
    /\ \A n \in MonNodes :
          /\ latencies[n] = <<>>
          /\ bandwidths[n] = <<>>
          /\ success_rates[n] = <<>>
          /\ last_update[n] = 0
    /\ node_urls = <<>>

\* C25: once stop_monitoring has returned no probe is scheduled and the
\* monitor's state is cleared (latency, bandwidth and success windows,
\* last-success times, node list); after a stop followed by a start every
\* node scores 0 and is unhealthy until a new probe of it has returned.
C25_StopClearsState ==
    /\ mon_last.op = "stop" => monitor_task # "running" /\ MonitorCleared
    /\ (mon_last.op = "start" /\ mon_last.after_stop)
          => \A n \in MonNodes :
                ScoreZero(get_node_score(n)) /\ ~is_node_healthy(n)

\* ---- C30
\* C30: a completed probe records exactly one observation: a latency sample
\* with success = 1 exactly when the node answered HEAD /ping with a 2xx
\* status; otherwise (timeout, connection error, non-2xx status) success = 0,
\* no latency sample, and the node's last-success time unchanged.
C30_ProbeRecordsOneObservation ==
    mon_last.op = "ping" =>
        LET n == mon_last.node
            b == mon_last.before
        IN  IF mon_last.answer = "2xx"
            THEN /\ latencies[n] = deque_append(b.lat, mon_last.latency, history_size)
                 /\ success_rates[n] = deque_append(b.sr, 1, success_maxlen)
            ELSE /\ latencies[n] = b.lat
                 /\ success_rates[n] = deque_append(b.sr, 0, success_maxlen)
                 /\ last_update[n] = b.lu

\* ---- C26
\* C26: an upload_chunks call that finds fewer healthy nodes than the
\* replication factor refuses before any PUT or commit request is sent, and
\* every commit request names at least replicas_per_chunk nodes, each of
\* which holds the chunk.
C26_NoUnderReplicatedCommit ==
    /\ (storage_nodes # None /\ Cardinality(storage_nodes[1]) < replicas_per_chunk)
          => up_call = "refused" /\ ~put_sent /\ commits = {}
    /\ \A r \in commits :
          /\ Cardinality(r.node_urls) >= replicas_per_chunk
          /\ \A n \in r.node_urls : r.chunk_id \in stored[n]

\* ---- C27
HeartbeatAge(row) == hm_clock - row.last_heartbeat

\* C27: right after a pass of _mark_unhealthy_nodes every registered node
\* whose last heartbeat is older than heartbeat_timeout is down and every
\* node with a fresher heartbeat is as the pass found it (so a node stays
\* healthy through the passes while its heartbeats are within the timeout);
\* a heartbeat of a registered node, a down one included, leaves it healthy.
C27_StaleDownFreshUntouched ==
    /\ (hm_last.op = "mark" /\ hm_last.at = hm_clock) =>
          \A n \in HealthNodes :
             storage_node_rows[n] # None =>
                /\ HeartbeatAge(storage_node_rows[n][1]) > heartbeat_timeout
                      => storage_node_rows[n][1].status = "down"
                /\ HeartbeatAge(storage_node_rows[n][1]) <= heartbeat_timeout
                      => storage_node_rows[n] = hm_last.before[n]
    /\ (hm_last.op = "heartbeat" /\ hm_last.result) =>
          storage_node_rows[hm_last.node_id][1].status = "healthy"

\* ---- C28
\* the chunk at current_position is missing while later chunks are buffered
Gap == buffer # <<>> /\ buffer[1].sequence_num > current_position

\* the loop has the missing sequence number in a download it is waiting for
GapRequested ==
    /\ download_pc = "downloading"
    /\ \E i \in 1..Len(download_list) : download_list[i] = current_position

\* C28: when the chunk at current_position is missing while chunks with
\* higher sequence numbers are buffered, the download loop eventually
\* requests the missing sequence number again (so that the consumer's take
\* can succeed once a replica serves it).
C28_GapRefetched == Gap ~> GapRequested

\* ---- C29
CeilOfQuotient(a, b) == -((-a) \div b)

\* C29: whenever the loop finds needs_more_chunks() true, the number of
\* sequence numbers it asks the buffer for is
\* max(1, ceil((target_buffer_sec - level) / chunk_duration_sec) + 2).
C29_RequestCountIsCeil ==
    last_plan # None =>
        /\ Len(last_plan[1].sequences) = last_plan[1].count
        /\ last_plan[1].count =
              Max(1, CeilOfQuotient(target_buffer_sec - last_plan[1].level,
                                    CHUNK_DURATION_SEC) + 2)

\* ---- C31
AllReal(bw) == \A i \in 1..Len(bw) : bw[i] \in BandwidthVals

\* C31: the bandwidth window of a node only ever receives the samples that
\* update_bandwidth records (no other operation adds one), so that once a
\* real sample is recorded the bandwidth term of the score is the mean of
\* real samples only and the default estimate no longer contributes.
C31_OnlyRealBandwidthSamples ==
    /\ [](\A n \in MonNodes :
            (mon_last.op = "bandwidth" /\ mon_last.node = n)
               => AllReal(bandwidths[n]))
    /\ [][\A n \in MonNodes :
            bandwidths'[n] # bandwidths[n]
               => mon_last'.op = "bandwidth" /\ mon_last'.node = n]_vars

\* ---- C32
ChecksumMismatch(response) == response.status_code = 200 /\ ~response.etag_matches

\* C32: an Accept phase in which some node returns the chunk with a checksum
\* other than the expected one aborts the attempt: that attempt does not go
\* on to commit, even when a quorum of the other nodes confirmed the
\* checksum.
C32_MismatchAbortsAttempt ==
    [][\A p \in Proposers :
          proc[p].pc = "accept_wait" =>
             \A answers \in [proc[p].responses -> AcceptAnswers] :
                (/\ accept_responses(p, answers)
                 /\ \E n \in DOMAIN answers : ChecksumMismatch(answers[n]))
                => proc'[p].pc # "commit_rows"]_vars

\* ---- C33
\* the requests this scheduler has in flight to node n
InFlight(n) ==
    Cardinality({w \in Workers :
                    worker[w].pc = "request" /\ worker[w].node_url = Some(n)})

\* no download_chunk call is running
AllDownloadsReturned ==
    \A w \in Workers : worker[w].pc \in {"none", "get", "exit"}

C38_SuccessRateInUnitInterval ==
    /\ failed_downloads <= total_downloads
    /\ total_downloads - failed_downloads >= 0
    /\ total_downloads - failed_downloads <= Max(1, total_downloads)

\* ---- C35
\* The fail-over of one chunk never loops forever: a node is selected only
\* while it has not been attempted, so at most once; a selected node receives
\* at most MAX_RETRIES requests; the chunk is requested at most MAX_RETRIES
\* times the length of its replica list, also when that list repeats a node;
\* and under fair scheduling every started download returns.
Downloading(w) == worker[w].pc \in {"request", "backoff"}

C35_FailoverTerminates ==
    /\ [](\A w \in Workers : Downloading(w) =>
            LET rec == worker[w]
                replicas == rec.chunk_info[1].replicas
            IN  /\ rec.attempt < MAX_RETRIES
                /\ rec.requests <= MAX_RETRIES * Cardinality(rec.attempted)
                /\ rec.requests <= MAX_RETRIES * Len(replicas)
                /\ Cardinality(rec.attempted) <= Len(replicas))
    /\ [][\A w \in Workers :
            (/\ Downloading(w)
             /\ Downloading(w)'
             /\ worker'[w].attempted # worker[w].attempted)
            => /\ worker'[w].node_url[1] \notin worker[w].attempted
               /\ worker'[w].attempted = worker[w].attempted \cup {worker'[w].node_url[1]}]_vars
    /\ \A w \in Workers : Downloading(w) ~> ~Downloading(w)

\* a chunk whose replica list repeats a node has failed after every distinct
\* node was exhausted
C35_Witness ==
    \E w \in Workers :
       /\ worker[w].pc = "get"
       /\ \E c \in Calls : "e" \in DOMAIN results[c] /\ results[c]["e"] = "nil"
       /\ failover_count >= 2

\* ---- C34
\* A decode of at least K fragments returns exactly len(chunk) bytes, the zero
\* padding of encode_chunk removed, whatever the chunk length and whether the
\* data fragments were all held or some had to be rebuilt.
C34_DecodeHasOriginalLength ==
    (/\ decoded # None
     /\ Cardinality(held) >= erasure_data_shards
     /\ decoded[1].ok)
    => Len(decoded[1].value) = Len(original)

\* ---- C36
\* After every add, take and reset the buffer is strictly ascending by
\* sequence number and holds no sequence number below current_position.
C36_BufferSortedAndAhead ==
    /\ \A i, j \in 1..Len(buffer) : i < j => buffer[i].sequence_num < buffer[j].sequence_num
    /\ \A i \in 1..Len(buffer) : buffer[i].sequence_num >= current_position

\* chunks that arrived out of order are buffered after playback has advanced
C36_Witness ==
    /\ current_position > 0
    /\ Len(buffer) >= 2
    /\ last_add = Some(TRUE)
    /\ total_chunks_buffered > total_chunks_played + Len(buffer) - 1
    /\ \E i \in 1..Len(buffer) : buffer[i].sequence_num > current_position + i - 1

\* ---- C37
\* current_memory_usage is the sum of the sizes of the buffered chunks held in
\* memory, spilled chunks counting nothing; it is never negative and never
\* above max_memory_bytes.
RECURSIVE InMemoryBytes(_)
InMemoryBytes(buf) ==
    IF buf = <<>> THEN 0
    ELSE (IF Head(buf).data # None THEN Len(Head(buf).data[1]) ELSE 0)
         + InMemoryBytes(Tail(buf))

C37_MemoryUsageIsInMemoryBytes ==
    /\ current_memory_usage = InMemoryBytes(buffer)
    /\ current_memory_usage >= 0
    /\ current_memory_usage <= max_memory_bytes

\* a full memory budget next to a spilled chunk, after a take freed memory
C37_Witness ==
    /\ total_chunks_played > 0
    /\ current_memory_usage = max_memory_bytes
    /\ \E i \in 1..Len(buffer) : buffer[i].data = None
    /\ \E i \in 1..Len(buffer) : buffer[i].data # None

\* ---- C39
\* The cleanup of a proposal that returns failure leaves the chunks, the
\* fragments and the videos tables as they were, removes no replica row of
\* another chunk or of another ballot and adds none, and touches the
\* consensus record of no other chunk.
C39_CleanupFrame ==
    [][\A p \in Proposers :
          ReturnsFailure(p) =>
              LET c == proc[p].request[1].chunk_id
                  b == proc[p].ballot_number
              IN  /\ db'.chunks = db.chunks
                  /\ db'.chunk_fragments = db.chunk_fragments
                  /\ db'.videos = db.videos
                  /\ db'.chunk_replicas \subseteq db.chunk_replicas
                  /\ \A r \in db.chunk_replicas :
                        (r.chunk_id # c \/ r.ballot_number # b) => r \in db'.chunk_replicas
                  /\ {r \in db'.consensus_state : r.chunk_id # c}
                        = {r \in db.consensus_state : r.chunk_id # c}]_vars

\* a later proposal for a committed chunk failed and was cleaned up; the
\* replica rows of the earlier commit, under their own ballot, are in place
C39_Witness ==
    /\ \A p \in Proposers : proc[p].pc = "idle"
    /\ \E s \in db.consensus_state :
          /\ s.phase = "none"
          /\ \E x \in db.chunks : x.chunk_id = s.chunk_id
          /\ Cardinality({r \in db.chunk_replicas :
                            r.chunk_id = s.chunk_id /\ r.ballot_number # s.promised_ballot}) >= 2

\* ---- C40
\* When a video of total_chunks chunks is played and no chunk download fails
\* for good, the chunks are delivered in ascending order, each once, and in
\* the end all of 0..total_chunks-1 have been delivered, playing is false and
\* both loops have stopped.
C40_PlaysToTheEnd ==
    /\ [](\A i \in 1..Len(delivered) : delivered[i] = i - 1)
    /\ <>[](/\ delivered = [i \in 1..total_chunks |-> i - 1]
            /\ ~playing
            /\ play_pc = "stopped"
            /\ download_pc = "stopped")

=============================================================================
